---- MODULE Spec2Model ----
(***************************************************************************)
(* Model of the retrieval-augmented chat loop (src/challenge6/app.py) and  *)
(* of the batch ingestion pipeline (src/challenge6/                        *)
(* ingest_recipes_to_cosmos.py).                                           *)
(*                                                                         *)
(* A text is a sequence of one-character strings, so that len(), slicing,  *)
(* concatenation, strip() and lower() are computed as Python computes      *)
(* them.  An optional value (None or a value) is <<>> or <<value>>.        *)
(* Wall-clock readings (time.time()) are left out: no control flow reads   *)
(* them.                                                                   *)
(***************************************************************************)
EXTENDS Integers, Sequences, FiniteSets, TLC

\* ------------------------------------------------------------------ bounds

\* Turns started in one session of the chat loop.
MaxTurns == 3
\* Documents in the ingested corpus.
MaxDocs == 17
\* Runs of the ingestion pipeline over the same corpus and container.
MaxRuns == 2
\* Passages handed to one build_sources_context, and calls made with them.
MaxPassages == 2
MaxCalls == 2
\* The k asked of one retrieve, and the items in the container it queries.
MaxK == 6
MaxRows == 7

\* ------------------------------------------------------- program constants

TOP_K == 5
TRUNCATE_AT == 1200
BATCH_SIZE == 8
MAX_RETRIES == 5
\* RETRY_BASE = 1.5, kept exact as the fraction 3/2.
RETRY_BASE_NUM == 3
RETRY_BASE_DEN == 2
\* The partition key the pipeline writes and, by default, the chat queries.
PK_VALUE == "docs"

\* ------------------------------------------------ the chat loop: its state

VARIABLES
    pc,             \* where main()'s loop stands
    messages,       \* the persisted conversation (app.py:86)
    turn,           \* main()'s turn counter (app.py:196)
    user_input,     \* the stripped line read by input()
    docs,           \* ask(): what retrieve() returned, None before it returns
    turn_messages,  \* ask(): the list sent to the chat backend, None before
    resp,           \* ask(): the chat backend's response, None before
    result,         \* main(): the dictionary ask() returned, None before
    err,            \* the exception being handled, None when there is none
    \* history variables, read by no action:
    raw_line,       \* the last line as input() returned it, before strip()
    base,           \* messages as it was when the current turn began
    chat_calls,     \* chat-completion calls issued in the current turn
    outcomes        \* one record per finished turn, in order

varsChat == << pc, messages, turn, user_input, docs, turn_messages, resp,
               result, err, raw_line, base, chat_calls, outcomes >>

\* ------------------------------------------------- ingestion: its state

VARIABLES
    ipc,            \* where ingestion's main() stands
    corpus,         \* docs: the documents loaded from the corpus file
    batch_no,       \* batches taken from chunked(docs, BATCH_SIZE) so far
    embeddings,     \* the vectors of the current batch
    item_no,        \* pairs taken from zip(batch, embeddings) so far
    item,           \* the item being upserted, None before the first
    inserted,       \* main()'s counter of upserted items
    store,          \* the container: its items, in the order they were created
    uuid_count,     \* uuid4() values handed out so far
    attempt,        \* retry_with_backoff's loop variable
    raised,         \* the exception that ended the run, None while it runs
    \* history variables, read by no action:
    tries,          \* calls of func made by the current retry_with_backoff
    errs,           \* the exceptions those calls raised, in order
    waits,          \* the sleeps the current retry_with_backoff made, in order
    embed_calls,    \* embedding calls issued in the run
    upsert_calls,   \* upsert calls issued in the run
    failures,       \* backend calls of the run that raised
    run,            \* which run of the pipeline over this container this is
    prior_failed    \* whether a backend call raised in an earlier run

varsIngest == << ipc, corpus, batch_no, embeddings, item_no, item, inserted, store,
                 uuid_count, attempt, raised, tries, errs, waits, embed_calls,
                 upsert_calls, failures, run, prior_failed >>

\* ------------------------------- build_sources_context called alone: state

VARIABLES
    s_pc,           \* where the call stands: "idle" between calls, "loop" in one
    passages,       \* docs: the list object the caller holds and passes in
    s_i,            \* passages the for loop has taken so far
    chunks,         \* the list the loop appends to
    \* history variables, read by no action:
    given,          \* the passages as the caller first had them
    outs            \* what each finished call returned, in order

varsSources == << s_pc, passages, s_i, chunks, given, outs >>

\* ------------------------------------------ retrieve called alone: state

VARIABLES
    r_pc,           \* where the call stands
    r_k,            \* the parameter k
    r_items,        \* the container's items, nearest to the query first
    r_qvec,         \* the query vector, None before embed() returns
    r_out,          \* what retrieve returned, None before it returns
    r_err           \* the exception that left retrieve, None when none did

varsRetrieve == << r_pc, r_k, r_items, r_qvec, r_out, r_err >>

\* --------------------------------- SearchPlugin._retrieve called: state

VARIABLES
    q_pc,           \* where the call stands: "idle" between calls
    vector_field,   \* self.vector_field: None, or the text of the setting
    emb_deployment, \* self.emb_deployment: None, or the text of the setting
    q_k,            \* the parameter k
    q_emb,          \* emb, None before _embed() has returned
    q_results,      \* results, None before search() has returned
    q_out,          \* what the last call returned, None when it has not
    q_err,          \* the exception that left the last call, None when none
    \* history variables, read by no action:
    q_calls,        \* calls of _retrieve so far
    embed_entered,  \* calls of _embed so far
    embed_backend,  \* calls of aoai.embeddings.create so far
    searches        \* the requests given to search.search(), in order

varsPlugin == << q_pc, vector_field, emb_deployment, q_k, q_emb, q_results,
                 q_out, q_err, q_calls, embed_entered, embed_backend, searches >>

\* ------------------------------------- the tool-calling chat loops: state

VARIABLES
    t_app,          \* which program runs: "challenge5" or "challenge8"
    t_pc,           \* where the loop stands
    history,        \* the ChatHistory object
    t_input,        \* user_input
    t_resp,         \* the response of the chat service, None before it returns
    t_turns,        \* turns begun so far
    t_failed        \* turns in which the chat service raised

varsTools == << t_app, t_pc, history, t_input, t_resp, t_turns, t_failed >>

\* ------------------------------ DatabasePlugin.execute_sql_command: state

VARIABLES
    d_pc,           \* where the call stands: "idle" between calls
    sql_command,    \* the parameter of the last call
    d_out,          \* what the last call returned, None while it runs
    d_raised,       \* the exception that left the last call, None when none
    \* history variables, read by no action:
    d_calls,        \* calls of execute_sql_command so far
    db_calls,       \* the commands given to db_service, in order
    db_errors       \* calls of db_service that raised

varsDb == << d_pc, sql_command, d_out, d_raised, d_calls, db_calls, db_errors >>

vars == << varsChat, varsIngest, varsSources, varsRetrieve, varsPlugin, varsTools,
           varsDb >>

\* What a step of the chat loop leaves alone, and a step of the ingestion.
ChatFrame ==
    UNCHANGED << varsIngest, varsSources, varsRetrieve, varsPlugin, varsTools, varsDb >>

\* A step of a run also leaves the record of the earlier runs alone.
IngestFrame ==
    UNCHANGED << varsChat, varsSources, varsRetrieve, varsPlugin, varsTools, varsDb,
                 run, prior_failed >>

SourcesFrame ==
    UNCHANGED << varsChat, varsIngest, varsRetrieve, varsPlugin, varsTools, varsDb >>

RetrieveFrame ==
    UNCHANGED << varsChat, varsIngest, varsSources, varsPlugin, varsTools, varsDb >>

PluginFrame ==
    UNCHANGED << varsChat, varsIngest, varsSources, varsRetrieve, varsTools, varsDb >>

ToolsFrame ==
    UNCHANGED << varsChat, varsIngest, varsSources, varsRetrieve, varsPlugin, varsDb >>

DbFrame ==
    UNCHANGED << varsChat, varsIngest, varsSources, varsRetrieve, varsPlugin,
                 varsTools >>

\* -------------------------------------------------------------------- text

None == << >>

Some(x) == << x >>

Whitespace == { " ", "\t", "\n" }

UpperCase == << "A", "B", "C", "D", "E", "F", "G", "H", "I", "J", "K", "L", "M",
               "N", "O", "P", "Q", "R", "S", "T", "U", "V", "W", "X", "Y", "Z" >>

LowerCase == << "a", "b", "c", "d", "e", "f", "g", "h", "i", "j", "k", "l", "m",
               "n", "o", "p", "q", "r", "s", "t", "u", "v", "w", "x", "y", "z" >>

LowerChar(c) ==
    IF \E i \in 1..Len(UpperCase) : UpperCase[i] = c
    THEN LowerCase[CHOOSE i \in 1..Len(UpperCase) : UpperCase[i] = c]
    ELSE c

\* str.lower()
Lower(s) == [i \in 1..Len(s) |-> LowerChar(s[i])]

\* str.strip(): leading and trailing whitespace removed.
Strip(s) ==
    LET keep == { i \in 1..Len(s) : s[i] \notin Whitespace }
    IN  IF keep = {} THEN << >>
        ELSE SubSeq(s, CHOOSE i \in keep : \A j \in keep : i <= j,
                       CHOOSE i \in keep : \A j \in keep : j <= i)

\* needle in hay (Python's substring test).
Contains(hay, needle) ==
    \E i \in 1..(Len(hay) - Len(needle) + 1) :
        SubSeq(hay, i, i + Len(needle) - 1) = needle

Digits == << "0", "1", "2", "3", "4", "5", "6", "7", "8", "9" >>

RECURSIVE IntToText(_)
\* str(i) of a non-negative integer, as the f-string formats {i}.
IntToText(i) ==
    IF i < 10 THEN << Digits[i + 1] >>
    ELSE IntToText(i \div 10) \o << Digits[(i % 10) + 1] >>

RECURSIVE Join(_, _)
\* sep.join(parts)
Join(sep, parts) ==
    IF Len(parts) = 0 THEN << >>
    ELSE IF Len(parts) = 1 THEN parts[1]
    ELSE parts[1] \o sep \o Join(sep, Tail(parts))

T_exit == << "e", "x", "i", "t" >>

T_quit == << "q", "u", "i", "t" >>

SOURCES_PREFIX == << "S", "O", "U", "R", "C", "E", "S", ":", "\n" >>

SOURCES_MARK == << "S", "O", "U", "R", "C", "E", "S", ":" >>

QUESTION_INFIX == << "\n", "\n", "Q", "u", "e", "s", "t", "i", "o", "n", ":", " " >>

ELLIPSIS == << ".", ".", "." >>

SYSTEM_PROMPT ==
    << "Y", "o", "u", " ", "a", "r", "e", " ", "a", " ", "h", "e", "l", "p",
       "f", "u", "l", " ", "a", "s", "s", "i", "s", "t", "a", "n", "t", ".",
       "\n", "Y", "o", "u", " ", "m", "a", "y", " ", "u", "s", "e", " ", "c",
       "o", "n", "v", "e", "r", "s", "a", "t", "i", "o", "n", " ", "h", "i",
       "s", "t", "o", "r", "y", " ", "f", "o", "r", " ", "c", "o", "n", "t",
       "e", "x", "t", " ", "(", "f", "o", "l", "l", "o", "w", "-", "u", "p",
       "s", ")", ",", " ", "b", "u", "t", " ", "f", "a", "c", "t", "u", "a",
       "l", " ", "c", "l", "a", "i", "m", "s", " ", "M", "U", "S", "T", " ",
       "b", "e", " ", "s", "u", "p", "p", "o", "r", "t", "e", "d", " ", "b",
       "y", " ", "S", "O", "U", "R", "C", "E", "S", ".", "\n", "U", "s", "e",
       " ", "O", "N", "L", "Y", " ", "t", "h", "e", " ", "p", "r", "o", "v",
       "i", "d", "e", "d", " ", "S", "O", "U", "R", "C", "E", "S", " ", "f",
       "o", "r", " ", "a", "n", "s", "w", "e", "r", "i", "n", "g", ".", " ",
       "I", "f", " ", "t", "h", "e", " ", "a", "n", "s", "w", "e", "r", " ",
       "i", "s", " ", "n", "o", "t", " ", "i", "n", " ", "S", "O", "U", "R",
       "C", "E", "S", ",", " ", "s", "a", "y", " ", "y", "o", "u", " ", "d",
       "o", "n", "'", "t", " ", "k", "n", "o", "w", ".", "\n", "W", "h", "e",
       "n", " ", "a", "n", "s", "w", "e", "r", "i", "n", "g", ",", " ", "c",
       "i", "t", "e", " ", "s", "o", "u", "r", "c", "e", "s", " ", "l", "i",
       "k", "e", " ", "[", "1", "]", ",", " ", "[", "2", "]", "." >>

FALLBACK_ANSWER ==
    << "I", " ", "d", "o", "n", "'", "t", " ", "k", "n", "o", "w", ".", " ",
       "(", "N", "o", " ", "r", "e", "l", "e", "v", "a", "n", "t", " ", "c",
       "o", "n", "t", "e", "n", "t", " ", "r", "e", "t", "r", "i", "e", "v",
       "e", "d", " ", "f", "r", "o", "m", " ", "C", "o", "s", "m", "o", "s",
       " ", "D", "B", ".", ")" >>

\* ------------------------------------------------- build_sources_context

\* d.get(key, ""): a missing field reads as the empty text.
DocGet(d, key) == IF key \in DOMAIN d THEN d[key] ELSE << >>

\* A slip: a content of exactly 1200 characters is cut as well.
TruncateContentAtOrOver(content) ==
    IF Len(content) >= TRUNCATE_AT
    THEN SubSeq(content, 1, TRUNCATE_AT) \o ELLIPSIS
    ELSE content

\* The content of one passage as it goes into its block.
TruncateContent(content) ==
    IF Len(content) > TRUNCATE_AT
    THEN SubSeq(content, 1, TRUNCATE_AT) \o ELLIPSIS
    ELSE content

\* A slip: enumerate() without start=1.
SourceChunkZeroBased(i, d) ==
    << "[" >> \o IntToText(i - 1) \o << "]", " " >> \o DocGet(d, "title")
        \o << "\n" >> \o TruncateContent(DocGet(d, "content"))

\* f"[{i}] {title}\n{content}"
SourceChunk(i, d) ==
    << "[" >> \o IntToText(i) \o << "]", " " >> \o DocGet(d, "title")
        \o << "\n" >> \o TruncateContent(DocGet(d, "content"))

build_sources_context(ds) ==
    Join(<< "\n", "\n" >>, [i \in 1..Len(ds) |-> SourceChunk(i, ds[i])])

\* f"SOURCES:\n{sources}\n\nQuestion: {user_text}"
AugmentedContent(sources, user_text) ==
    SOURCES_PREFIX \o sources \o QUESTION_INFIX \o user_text

Message(role, content) == [role |-> role, content |-> content]

\* ------------------------------ build_sources_context called alone: inputs

\* A content of n characters, no two neighbours alike.
LongText(n) == [k \in 1..n |-> Digits[(k % 10) + 1]]

\* Passages a caller may hold: short ones, one with no title, one with no
\* content, and contents of 1200, 1201 and 1204 characters.
PassagePool == {
    [title |-> << "A" >>, content |-> << "x", "y" >>],
    [content |-> << "z" >>],
    [title |-> << "B" >>],
    [title |-> << "T" >>, content |-> LongText(TRUNCATE_AT)],
    [title |-> << "T" >>, content |-> LongText(TRUNCATE_AT + 1)],
    [title |-> << "L", "g" >>, content |-> LongText(TRUNCATE_AT + 4)] }

RECURSIVE SeqsUpTo(_, _)
\* The sequences over S of length 0..n.
SeqsUpTo(S, n) ==
    IF n = 0 THEN { << >> }
    ELSE LET shorter == SeqsUpTo(S, n - 1)
         IN  shorter \cup { Append(s, x) : s \in { t \in shorter : Len(t) = n - 1 }, x \in S }

\* ------------------------------- build_sources_context called alone: steps

SourcesInit ==
    /\ s_pc = "idle"
    /\ passages \in SeqsUpTo(PassagePool, MaxPassages)
    /\ given = passages
    /\ s_i = 0
    /\ chunks = << >>
    /\ outs = << >>

\* app.py:43: the call starts with an empty list of chunks.
CallSources ==
    /\ s_pc = "idle"
    /\ Len(outs) < MaxCalls
    /\ s_pc' = "loop"
    /\ s_i' = 0
    /\ chunks' = << >>
    /\ UNCHANGED << passages, given, outs >>
    /\ SourcesFrame

\* A slip: the truncated content is written back into the passage.
ChunkStepInPlace ==
    /\ s_pc = "loop"
    /\ s_i < Len(passages)
    /\ s_i' = s_i + 1
    /\ chunks' = Append(chunks, SourceChunk(s_i + 1, passages[s_i + 1]))
    /\ passages' = [passages EXCEPT ![s_i + 1] =
                       [title |-> DocGet(@, "title"),
                        content |-> TruncateContent(DocGet(@, "content"))]]
    /\ UNCHANGED << s_pc, given, outs >>
    /\ SourcesFrame

\* app.py:44-52: one round of the loop: the next passage's chunk is built
\* from local copies of its title and content and appended.
ChunkStep ==
    /\ s_pc = "loop"
    /\ s_i < Len(passages)
    /\ s_i' = s_i + 1
    /\ chunks' = Append(chunks, SourceChunk(s_i + 1, passages[s_i + 1]))
    /\ UNCHANGED << s_pc, passages, given, outs >>
    /\ SourcesFrame

\* app.py:53: the loop is over; the chunks are joined and returned.
JoinReturn ==
    /\ s_pc = "loop"
    /\ s_i = Len(passages)
    /\ outs' = Append(outs, Join(<< "\n", "\n" >>, chunks))
    /\ s_pc' = "idle"
    /\ UNCHANGED << passages, s_i, chunks, given >>
    /\ SourcesFrame

SourcesNext ==
    \/ CallSources
    \/ ChunkStep
    \/ JoinReturn

SourcesParked ==
    /\ s_pc = "off"
    /\ passages = << >>
    /\ given = << >>
    /\ s_i = 0
    /\ chunks = << >>
    /\ outs = << >>

\* ----------------------------------------- retrieve called alone: inputs

\* The i-th nearest item of the container.  Every third one lies in another
\* partition, every fourth one has no content.
StoredItem(i) ==
    IF i % 4 = 0
    THEN [id |-> i, pk |-> IF i % 3 = 0 THEN "other" ELSE "docs", title |-> IntToText(i)]
    ELSE [id |-> i, pk |-> IF i % 3 = 0 THEN "other" ELSE "docs", title |-> IntToText(i),
          content |-> << "c" >> \o IntToText(i)]

StoredItems(n) == [i \in 1..n |-> StoredItem(i)]

\* ------------------------------------------ retrieve called alone: steps

\* A slip: the limit sent is the default, whatever k was asked.
QueryParamsDefaultK(k, pk, qvec) == [k |-> TOP_K, pk |-> pk, qvec |-> qvec]

\* app.py:126-130: the parameters bound to @k, @pk and @qvec.
QueryParams(k, pk, qvec) == [k |-> k, pk |-> pk, qvec |-> qvec]

\* SELECT c.title, c.content: the two fields of an item, where it has them.
ProjectRow(it) == [f \in (DOMAIN it) \cap { "title", "content" } |-> it[f]]

\* app.py:119-124, as the store runs it: of the items WHERE c.pk = @pk, in
\* the ORDER BY VectorDistance, the TOP @k, each projected.
RunQuery(items, params) ==
    LET matching == SelectSeq(items, LAMBDA it : it.pk = params.pk)
        n == IF params.k <= Len(matching) THEN params.k ELSE Len(matching)
    IN  [j \in 1..n |-> ProjectRow(matching[j])]

RetrieveInit ==
    /\ r_pc = "embed"
    /\ r_k \in 1..MaxK
    /\ r_items \in { StoredItems(n) : n \in 0..MaxRows }
    /\ r_qvec = None
    /\ r_out = None
    /\ r_err = None

\* app.py:116: embed(query) returns the query vector or raises.
RetrieveEmbed ==
    /\ r_pc = "embed"
    /\ \/ /\ r_qvec' = Some("qvec")
          /\ r_pc' = "query"
          /\ r_err' = r_err
       \/ /\ r_err' = Some("EmbeddingError")
          /\ r_pc' = "raised"
          /\ r_qvec' = r_qvec
    /\ UNCHANGED << r_k, r_items, r_out >>
    /\ RetrieveFrame

\* app.py:119-139: the query is sent; its rows, as a list, are returned, or
\* the store raises.
RetrieveQuery ==
    /\ r_pc = "query"
    /\ \/ /\ r_out' = Some(RunQuery(r_items, QueryParams(r_k, PK_VALUE, r_qvec[1])))
          /\ r_pc' = "returned"
          /\ r_err' = r_err
       \/ /\ r_err' = Some("SearchError")
          /\ r_pc' = "raised"
          /\ r_out' = r_out
    /\ UNCHANGED << r_k, r_items, r_qvec >>
    /\ RetrieveFrame

RetrieveNext ==
    \/ RetrieveEmbed
    \/ RetrieveQuery

RetrieveParked ==
    /\ r_pc = "off"
    /\ r_k = TOP_K
    /\ r_items = << >>
    /\ r_qvec = None
    /\ r_out = None
    /\ r_err = None

\* ------------------------------------------------- the chat loop: its inputs

\* Lines the user may type (what input() returns, before strip()).
RawInputs == {
    << "e", "x", "i", "t" >>,
    << " ", "Q", "u", "I", "t", " " >>,
    << >>,
    << " ", "\t" >>,
    << " ", "h", "i", " " >>,
    << "S", "O", "U", "R", "C", "E", "S", ":" >> }

Doc1 == [title |-> << "A" >>, content |-> << "x", "y" >>]

Doc2 == [content |-> << "z" >>]

\* What the store's query may return for TOP @k: at most k rows, ranked.
SearchResults(k) ==
    { r \in { << >>, << Doc1 >>, << Doc2, Doc1 >> } : Len(r) <= k }

UsageStats == [prompt_tokens |-> 120, completion_tokens |-> 40, total_tokens |-> 160]

\* The chat backend is opaque: it may answer nothing (content None), a short
\* text, or repeat the last message it was sent.
ChatContents(sent) ==
    { None, Some(<< "o", "k", " ", "[", "1", "]" >>), Some(sent[Len(sent)].content) }

ChatResponses(sent) ==
    { [content |-> c, usage |-> u] : c \in ChatContents(sent), u \in { None, Some(UsageStats) } }

\* ------------------------------------------------ the chat loop: its steps

\* resp.choices[0].message.content or ""
AnswerOf(r) == IF r.content = None THEN << >> ELSE r.content[1]

\* The dictionary ask() returns when retrieval is empty (app.py:156-161).
FallbackResult ==
    [answer |-> FALLBACK_ANSWER, usage |-> None, docs_count |-> 0, has_llm_sec |-> FALSE]

\* The dictionary ask() returns after a generation (app.py:188-194).
GeneratedResult(r, ds) ==
    [answer |-> AnswerOf(r), usage |-> r.usage, docs_count |-> Len(ds), has_llm_sec |-> TRUE]

\* A slip: the source-injected text is what gets persisted as the user turn.
AppendTurnAugmented(msgs, text, answer) ==
    msgs \o << Message("user", SOURCES_PREFIX \o text), Message("assistant", answer) >>

\* A slip: the history is kept short by dropping its oldest pair.
AppendTurnTrimmed(msgs, text, answer) ==
    (IF Len(msgs) >= 3 THEN << msgs[1] >> \o SubSeq(msgs, 4, Len(msgs)) ELSE msgs)
        \o << Message("user", text), Message("assistant", answer) >>

\* messages.append(user); messages.append(assistant)  (app.py:185-186)
AppendTurn(msgs, text, answer) ==
    msgs \o << Message("user", text), Message("assistant", answer) >>

\* A slip: only the system turn is sent along, not the history.
BuildTurnMessagesSystemOnly(msgs, ds, text) ==
    << msgs[1] >> \o << Message("user", AugmentedContent(build_sources_context(ds), text)) >>

\* turn_messages = messages + [augmented user message]  (app.py:166-171)
BuildTurnMessages(msgs, ds, text) ==
    msgs \o << Message("user", AugmentedContent(build_sources_context(ds), text)) >>

ChatInit ==
    /\ pc = "prompt"
    /\ messages = << Message("system", SYSTEM_PROMPT) >>
    /\ turn = 0
    /\ user_input = << >>
    /\ docs = None
    /\ turn_messages = None
    /\ resp = None
    /\ result = None
    /\ err = None
    /\ raw_line = << >>
    /\ base = << Message("system", SYSTEM_PROMPT) >>
    /\ chat_calls = 0
    /\ outcomes = << >>

\* A slip: the line is used as read, without strip().
ReadInputNoStrip ==
    /\ pc = "prompt"
    /\ \E raw \in RawInputs :
        LET line == raw IN
        /\ raw_line' = raw
        /\ user_input' = line
        /\ IF Lower(line) \in { T_exit, T_quit }
           THEN /\ pc' = "exited"
                /\ UNCHANGED << turn, base, chat_calls >>
           ELSE IF line = << >>
           THEN /\ pc' = "prompt"
                /\ UNCHANGED << turn, base, chat_calls >>
           ELSE /\ turn < MaxTurns
                /\ turn' = turn + 1
                /\ pc' = "embed"
                /\ base' = messages
                /\ chat_calls' = 0
    /\ UNCHANGED << messages, docs, turn_messages, resp, result, err, outcomes >>
    /\ ChatFrame

\* app.py:199-207: read a line; exit/quit ends the loop, a blank line is
\* skipped, anything else starts turn number turn + 1.
ReadInput ==
    /\ pc = "prompt"
    /\ \E raw \in RawInputs :
        LET line == Strip(raw) IN
        /\ raw_line' = raw
        /\ user_input' = line
        /\ IF Lower(line) \in { T_exit, T_quit }
           THEN /\ pc' = "exited"
                /\ UNCHANGED << turn, base, chat_calls >>
           ELSE IF line = << >>
           THEN /\ pc' = "prompt"
                /\ UNCHANGED << turn, base, chat_calls >>
           ELSE /\ turn < MaxTurns
                /\ turn' = turn + 1
                /\ pc' = "embed"
                /\ base' = messages
                /\ chat_calls' = 0
    /\ UNCHANGED << messages, docs, turn_messages, resp, result, err, outcomes >>
    /\ ChatFrame

\* app.py:98-104, 116: embed(query) returns a vector or raises.
Embed ==
    /\ pc = "embed"
    /\ \/ /\ pc' = "search"
          /\ err' = None
       \/ /\ pc' = "except"
          /\ err' = Some("EmbeddingError")
    /\ UNCHANGED << raw_line, messages, turn, user_input, docs, turn_messages, resp, result,
                    base, chat_calls, outcomes >>
    /\ ChatFrame

\* app.py:132-139, 152: the store's query returns its rows or raises.
Search ==
    /\ pc = "search"
    /\ \/ /\ \E rows \in SearchResults(TOP_K) : docs' = Some(rows)
          /\ pc' = "branch"
          /\ err' = None
       \/ /\ pc' = "except"
          /\ err' = Some("SearchError")
          /\ docs' = docs
    /\ UNCHANGED << raw_line, messages, turn, user_input, turn_messages, resp, result,
                    base, chat_calls, outcomes >>
    /\ ChatFrame

\* A slip: the empty retrieval is not short-circuited.
AssembleNoShortCircuit ==
    /\ pc = "branch"
    /\ turn_messages' = Some(BuildTurnMessages(messages, docs[1], user_input))
    /\ pc' = "generate"
    /\ UNCHANGED << raw_line, messages, turn, user_input, docs, resp, result, err, base,
                    chat_calls, outcomes >>
    /\ ChatFrame

\* A slip: the user turn is persisted before the generation is attempted.
AssembleAppendingUser ==
    /\ pc = "branch"
    /\ IF docs[1] = << >>
       THEN /\ result' = Some(FallbackResult)
            /\ pc' = "show"
            /\ UNCHANGED << turn_messages, messages >>
       ELSE /\ turn_messages' = Some(BuildTurnMessages(messages, docs[1], user_input))
            /\ messages' = Append(messages, Message("user", user_input))
            /\ pc' = "generate"
            /\ result' = result
    /\ UNCHANGED << raw_line, turn, user_input, docs, resp, err, base, chat_calls, outcomes >>
    /\ ChatFrame

\* app.py:155-171: no passages: return the fallback; otherwise assemble the
\* sources and the list of messages for this call.
Assemble ==
    /\ pc = "branch"
    /\ IF docs[1] = << >>
       THEN /\ result' = Some(FallbackResult)
            /\ pc' = "show"
            /\ turn_messages' = turn_messages
       ELSE /\ turn_messages' = Some(BuildTurnMessages(messages, docs[1], user_input))
            /\ pc' = "generate"
            /\ result' = result
    /\ UNCHANGED << raw_line, messages, turn, user_input, docs, resp, err, base, chat_calls, outcomes >>
    /\ ChatFrame

\* A slip: the user turn is written to the history while the call is made.
GenerateWritingHistory ==
    /\ pc = "generate"
    /\ chat_calls' = chat_calls + 1
    /\ messages' = Append(messages, Message("user", user_input))
    /\ \/ /\ \E r \in ChatResponses(turn_messages[1]) : resp' = Some(r)
          /\ pc' = "update"
          /\ err' = None
       \/ /\ pc' = "except"
          /\ err' = Some("GenerationError")
          /\ resp' = resp
    /\ UNCHANGED << raw_line, turn, user_input, docs, turn_messages, result, base, outcomes >>
    /\ ChatFrame

\* app.py:174-182: the chat-completion call returns a response or raises.
Generate ==
    /\ pc = "generate"
    /\ chat_calls' = chat_calls + 1
    /\ \/ /\ \E r \in ChatResponses(turn_messages[1]) : resp' = Some(r)
          /\ pc' = "update"
          /\ err' = None
       \/ /\ pc' = "except"
          /\ err' = Some("GenerationError")
          /\ resp' = resp
    /\ UNCHANGED << raw_line, messages, turn, user_input, docs, turn_messages, result, base, outcomes >>
    /\ ChatFrame

\* app.py:184-194: append the clean user and assistant turns, return.
Update ==
    /\ pc = "update"
    /\ messages' = AppendTurn(messages, user_input, AnswerOf(resp[1]))
    /\ result' = Some(GeneratedResult(resp[1], docs[1]))
    /\ pc' = "show"
    /\ UNCHANGED << raw_line, turn, user_input, docs, turn_messages, resp, err, base, chat_calls, outcomes >>
    /\ ChatFrame

\* What a finished turn is remembered as: its kind, the answer shown and, for
\* a turn that was answered from passages, the raw text and the SourceBlock.
Outcome(kind, text, answer, sources) ==
    [kind |-> kind, user |-> text, answer |-> answer, sources |-> sources]

\* app.py:217-245: print the answer and the metrics, go back to the prompt.
\* ask()'s locals are gone once it has returned.
Show ==
    /\ pc = "show"
    /\ pc' = "prompt"
    /\ outcomes' = Append(outcomes,
                     IF result[1].docs_count = 0
                     THEN Outcome("empty", << >>, result[1].answer, << >>)
                     ELSE Outcome("ok", user_input, result[1].answer,
                                  build_sources_context(docs[1])))
    /\ docs' = None
    /\ turn_messages' = None
    /\ resp' = None
    /\ result' = None
    /\ UNCHANGED << raw_line, messages, turn, user_input, err, base, chat_calls >>
    /\ ChatFrame

\* A slip: the handler lets the exception end the loop.
HandleExceptionFatal ==
    /\ pc = "except"
    /\ pc' = "exited"
    /\ outcomes' = Append(outcomes, Outcome("failed", << >>, << >>, << >>))
    /\ UNCHANGED << raw_line, messages, turn, user_input, docs, turn_messages, resp, result,
                    err, base, chat_calls >>
    /\ ChatFrame

\* app.py:247-250: log the error, print it, go back to the prompt.
HandleException ==
    /\ pc = "except"
    /\ pc' = "prompt"
    /\ outcomes' = Append(outcomes, Outcome("failed", << >>, << >>, << >>))
    /\ err' = None
    /\ docs' = None
    /\ turn_messages' = None
    /\ resp' = None
    /\ result' = None
    /\ UNCHANGED << raw_line, messages, turn, user_input, base, chat_calls >>
    /\ ChatFrame

ChatNext ==
    \/ ReadInput
    \/ Embed
    \/ Search
    \/ Assemble
    \/ Generate
    \/ Update
    \/ Show
    \/ HandleException

\* ------------------------------------------------ ingestion: its inputs

\* The i-th document of the corpus file.  Titles repeat with period 7, so the
\* corpus holds some documents twice; every third one has no content field.
CorpusDoc(i) ==
    IF i % 3 = 0
    THEN [title |-> IntToText(((i - 1) % 7) + 1)]
    ELSE [title |-> IntToText(((i - 1) % 7) + 1), content |-> << "c" >>]

Corpus(n) == [i \in 1..n |-> CorpusDoc(i)]

\* ----------------------------------------------- ingestion: its functions

RECURSIVE ChunkedFrom(_, _, _)
ChunkedFrom(lst, n, i) ==
    IF i >= Len(lst) THEN << >>
    ELSE << SubSeq(lst, i + 1, IF i + n <= Len(lst) THEN i + n ELSE Len(lst)) >>
             \o ChunkedFrom(lst, n, i + n)

\* A slip: each slice is one short, lst[i:i + n - 1].
ChunkedShort(lst, n) ==
    [b \in 1..((Len(lst) + n - 1) \div n) |->
        SubSeq(lst, (b - 1) * n + 1,
               IF b * n - 1 <= Len(lst) THEN b * n - 1 ELSE Len(lst))]

\* list(chunked(lst, n)): lst[i:i + n] for i in range(0, len(lst), n)
chunked(lst, n) == ChunkedFrom(lst, n, 0)

RECURSIVE Pow(_, _)
Pow(b, e) == IF e = 0 THEN 1 ELSE b * Pow(b, e - 1)

\* A slip: the exponent is the number of the next attempt.
BackoffNext(a) == << Pow(RETRY_BASE_NUM, a + 1), Pow(RETRY_BASE_DEN, a + 1) >>

\* wait = base ** attempt, as the fraction << numerator, denominator >>
Backoff(a) == << Pow(RETRY_BASE_NUM, a), Pow(RETRY_BASE_DEN, a) >>

\* A slip: the test for the last attempt is off by one.
IsFinalAttemptLate(a) == a = MAX_RETRIES

\* attempt == max_retries - 1
IsFinalAttempt(a) == a = MAX_RETRIES - 1

\* RuntimeError(f"Failed after {max_retries} retries: {e}")
RetryExhausted(e) == [type |-> "RuntimeError", retries |-> MAX_RETRIES, cause |-> e]

\* The exception a backend call raises: a new object each time, told apart
\* by the call that raised it.
BackendError(op, n) == [type |-> "BackendError", op |-> op, call |-> n]

\* f"{title}\n\n{content}"
EmbedText(d) == DocGet(d, "title") \o << "\n", "\n" >> \o DocGet(d, "content")

\* The embedding backend: one vector per text, in order.
EmbedBatch(texts) == [i \in 1..Len(texts) |-> [vector_of |-> texts[i]]]

\* zip(xs, ys): pairs up to the shorter of the two.
Zip(xs, ys) ==
    [i \in 1..(IF Len(xs) <= Len(ys) THEN Len(xs) ELSE Len(ys)) |-> << xs[i], ys[i] >>]

\* A slip: the id is derived from the document instead of generated.
MakeItemContentId(id, d, emb) ==
    [id |-> EmbedText(d), pk |-> PK_VALUE, title |-> DocGet(d, "title"),
     content |-> DocGet(d, "content"), embedding |-> emb]

\* The item built for one document (lines 121-127).
MakeItem(id, d, emb) ==
    [id |-> id, pk |-> PK_VALUE, title |-> DocGet(d, "title"),
     content |-> DocGet(d, "content"), embedding |-> emb]

\* container.upsert_item(item): replaces the item of the same id and
\* partition, or adds it.
Upsert(st, it) ==
    IF \E k \in 1..Len(st) : st[k].id = it.id /\ st[k].pk = it.pk
    THEN [k \in 1..Len(st) |-> IF st[k].id = it.id /\ st[k].pk = it.pk THEN it ELSE st[k]]
    ELSE Append(st, it)

Batches == chunked(corpus, BATCH_SIZE)

CurrentBatch == Batches[batch_no]

\* ------------------------------------------------- ingestion: its steps

\* The run starts with the corpus loaded and an empty container.
IngestInit ==
    /\ ipc = "batch"
    /\ corpus \in { Corpus(n) : n \in 0..MaxDocs }
    /\ batch_no = 0
    /\ embeddings = << >>
    /\ item_no = 0
    /\ item = None
    /\ inserted = 0
    /\ store = << >>
    /\ uuid_count = 0
    /\ attempt = 0
    /\ raised = None
    /\ tries = 0
    /\ errs = << >>
    /\ waits = << >>
    /\ embed_calls = 0
    /\ upsert_calls = 0
    /\ failures = 0
    /\ run = 1
    /\ prior_failed = FALSE

\* A slip: one attempt counter shared by all the retried calls of a run.
RetryEnterShared ==
    /\ attempt' = attempt
    /\ tries' = tries
    /\ errs' = errs
    /\ waits' = waits

\* Entering retry_with_backoff: the loop starts at attempt 0.
RetryEnter ==
    /\ attempt' = 0
    /\ tries' = 0
    /\ errs' = << >>
    /\ waits' = << >>

\* A slip: the last failure is logged and the run goes on.
RetryFailSwallowed(e) ==
    /\ errs' = Append(errs, e)
    /\ failures' = failures + 1
    /\ IF IsFinalAttempt(attempt)
       THEN /\ ipc' = "item"
            /\ UNCHANGED << attempt, waits, raised >>
       ELSE /\ waits' = Append(waits, Backoff(attempt))
            /\ attempt' = attempt + 1
            /\ UNCHANGED << raised, ipc >>

\* Lines 65-70: func() raised e.  The last attempt raises RuntimeError, which
\* nothing in main() catches; an earlier one sleeps and goes round again.
RetryFail(e) ==
    /\ errs' = Append(errs, e)
    /\ failures' = failures + 1
    /\ IF IsFinalAttempt(attempt)
       THEN /\ raised' = Some(RetryExhausted(e))
            /\ ipc' = "aborted"
            /\ UNCHANGED << attempt, waits >>
       ELSE /\ waits' = Append(waits, Backoff(attempt))
            /\ attempt' = attempt + 1
            /\ UNCHANGED << raised, ipc >>

\* Lines 111-117, 135: take the next batch and enter the retried embedding
\* call, or finish when no batch is left.
NextBatch ==
    /\ ipc = "batch"
    /\ IF batch_no < Len(Batches)
       THEN /\ batch_no' = batch_no + 1
            /\ RetryEnter
            /\ ipc' = "embed"
       ELSE /\ ipc' = "done"
            /\ UNCHANGED << batch_no, attempt, tries, errs, waits >>
    /\ UNCHANGED << corpus, embeddings, item_no, item, inserted, store, uuid_count,
                    raised, embed_calls, upsert_calls, failures >>
    /\ IngestFrame

\* Lines 62-64, 116: one attempt of the embedding call of the batch.
EmbedCall ==
    /\ ipc = "embed"
    /\ attempt < MAX_RETRIES
    /\ tries' = tries + 1
    /\ embed_calls' = embed_calls + 1
    /\ \/ /\ embeddings' = EmbedBatch([i \in 1..Len(CurrentBatch) |-> EmbedText(CurrentBatch[i])])
          /\ item_no' = 0
          /\ ipc' = "item"
          /\ UNCHANGED << attempt, raised, errs, waits, failures >>
       \/ /\ RetryFail(BackendError("embed", embed_calls + 1))
          /\ UNCHANGED << embeddings, item_no >>
    /\ UNCHANGED << corpus, batch_no, item, inserted, store, uuid_count, upsert_calls >>
    /\ IngestFrame

\* A slip: the item loop of a batch stops one pair early.
NextItemEarlyOut ==
    /\ ipc = "item"
    /\ IF item_no < Len(Zip(CurrentBatch, embeddings)) - 1
       THEN /\ item_no' = item_no + 1
            /\ uuid_count' = uuid_count + 1
            /\ item' = Some(MakeItem(uuid_count + 1,
                                     Zip(CurrentBatch, embeddings)[item_no + 1][1],
                                     Zip(CurrentBatch, embeddings)[item_no + 1][2]))
            /\ RetryEnter
            /\ ipc' = "upsert"
       ELSE /\ ipc' = "batch"
            /\ UNCHANGED << item_no, uuid_count, item, attempt, tries, errs, waits >>
    /\ UNCHANGED << corpus, batch_no, embeddings, inserted, store, raised,
                    embed_calls, upsert_calls, failures >>
    /\ IngestFrame

\* Lines 120-129, 132-133: take the next (document, vector) pair, build its
\* item under a new id and enter the retried upsert; or, the batch done,
\* report progress and go to the next batch.
NextItem ==
    /\ ipc = "item"
    /\ IF item_no < Len(Zip(CurrentBatch, embeddings))
       THEN /\ item_no' = item_no + 1
            /\ uuid_count' = uuid_count + 1
            /\ item' = Some(MakeItem(uuid_count + 1,
                                     Zip(CurrentBatch, embeddings)[item_no + 1][1],
                                     Zip(CurrentBatch, embeddings)[item_no + 1][2]))
            /\ RetryEnter
            /\ ipc' = "upsert"
       ELSE /\ ipc' = "batch"
            /\ UNCHANGED << item_no, uuid_count, item, attempt, tries, errs, waits >>
    /\ UNCHANGED << corpus, batch_no, embeddings, inserted, store, raised,
                    embed_calls, upsert_calls, failures >>
    /\ IngestFrame

\* A slip: a failed attempt makes the next one go out under a new id.
UpsertCallFreshId ==
    /\ ipc = "upsert"
    /\ attempt < MAX_RETRIES
    /\ tries' = tries + 1
    /\ upsert_calls' = upsert_calls + 1
    /\ \/ /\ store' = Upsert(store, item[1])
          /\ inserted' = inserted + 1
          /\ ipc' = "item"
          /\ UNCHANGED << attempt, raised, errs, waits, failures, item, uuid_count >>
       \/ /\ RetryFail(BackendError("upsert", upsert_calls + 1))
          /\ item' = Some([item[1] EXCEPT !.id = uuid_count + 1])
          /\ uuid_count' = uuid_count + 1
          /\ UNCHANGED << store, inserted >>
    /\ UNCHANGED << corpus, batch_no, embeddings, item_no, embed_calls >>
    /\ IngestFrame

\* Lines 62-64, 129-130: one attempt of the upsert of the item.  A call that
\* raises leaves the container as it was.
UpsertCall ==
    /\ ipc = "upsert"
    /\ attempt < MAX_RETRIES
    /\ tries' = tries + 1
    /\ upsert_calls' = upsert_calls + 1
    /\ \/ /\ store' = Upsert(store, item[1])
          /\ inserted' = inserted + 1
          /\ ipc' = "item"
          /\ UNCHANGED << attempt, raised, errs, waits, failures >>
       \/ /\ RetryFail(BackendError("upsert", upsert_calls + 1))
          /\ UNCHANGED << store, inserted >>
    /\ UNCHANGED << corpus, batch_no, embeddings, item_no, item, uuid_count, embed_calls >>
    /\ IngestFrame

IngestNext ==
    \/ NextBatch
    \/ EmbedCall
    \/ NextItem
    \/ UpsertCall

\* Lines 62-66, 129: an attempt of the upsert that raises although the
\* container took the item: the reply was lost on the way back.
UpsertLostReply ==
    /\ ipc = "upsert"
    /\ attempt < MAX_RETRIES
    /\ tries' = tries + 1
    /\ upsert_calls' = upsert_calls + 1
    /\ store' = Upsert(store, item[1])
    /\ RetryFail(BackendError("upsert", upsert_calls + 1))
    /\ UNCHANGED << corpus, batch_no, embeddings, item_no, item, inserted, uuid_count,
                    embed_calls >>
    /\ IngestFrame

LostReplyNext ==
    \/ NextBatch
    \/ EmbedCall
    \/ NextItem
    \/ UpsertCall
    \/ UpsertLostReply

\* The pipeline is started again after a run that finished: main() loads the
\* same corpus file and starts from its first line with new locals; the
\* container keeps its items, and uuid4() goes on handing out new values.
Rerun ==
    /\ ipc = "done"
    /\ run < MaxRuns
    /\ run' = run + 1
    /\ prior_failed' = (prior_failed \/ failures > 0)
    /\ ipc' = "batch"
    /\ batch_no' = 0
    /\ embeddings' = << >>
    /\ item_no' = 0
    /\ item' = None
    /\ inserted' = 0
    /\ attempt' = 0
    /\ tries' = 0
    /\ errs' = << >>
    /\ waits' = << >>
    /\ embed_calls' = 0
    /\ upsert_calls' = 0
    /\ failures' = 0
    /\ UNCHANGED << corpus, store, uuid_count, raised, varsChat, varsSources,
                    varsRetrieve, varsPlugin, varsTools, varsDb >>

ReingestNext ==
    \/ NextBatch
    \/ EmbedCall
    \/ NextItem
    \/ UpsertCall
    \/ Rerun

\* ------------------------------------ SearchPlugin._retrieve: its steps

\* Python's truth value of a setting read with os.getenv: None and the empty
\* text count as not set.
Truthy(setting) == setting # None /\ setting[1] # << >>

\* The settings a SearchPlugin object may have been built with.
FieldSettings == { None, Some(<< >>), Some(<< "v", "e", "c" >>) }

DeploymentSettings == { None, Some(<< >>), Some(<< "e", "m", "b" >>) }

\* The text the plugin is asked about.
PluginQuery == << "h", "i" >>

\* A row of the index, with padding around its fields.
PaddedRow == [title |-> << " ", "A" >>, content |-> << "x", "y", "\n" >>]

\* What search.search() may hand back for top=k.
IndexResults(k) ==
    { r \in { << >>, << PaddedRow >>, << Doc2, PaddedRow >> } : Len(r) <= k }

\* Lines 48-59: the request of the hybrid branch.
HybridRequest(query, emb, k) ==
    [search_text |-> query,
     vector_queries |-> << [vector |-> emb, k_nearest_neighbors |-> k,
                            fields |-> vector_field] >>,
     select |-> << "content", "title" >>,
     top |-> k]

\* Lines 61-65: the request of the keyword branch.
LexicalRequest(query, k) ==
    [search_text |-> query,
     vector_queries |-> << >>,
     select |-> << "content", "title" >>,
     top |-> k]

\* Lines 69-75: one row made into a passage.
PluginPassage(r) ==
    [title |-> Strip(DocGet(r, "title")),
     content |-> TruncateContent(Strip(DocGet(r, "content")))]

PluginInit ==
    /\ q_pc = "idle"
    /\ vector_field \in FieldSettings
    /\ emb_deployment \in DeploymentSettings
    /\ q_k = 5
    /\ q_emb = None
    /\ q_results = None
    /\ q_out = None
    /\ q_err = None
    /\ q_calls = 0
    /\ embed_entered = 0
    /\ embed_backend = 0
    /\ searches = << >>

\* A slip: the branch is taken on the embedding deployment, not the field.
PluginCallOnDeployment ==
    /\ q_pc = "idle"
    /\ q_calls < MaxCalls
    /\ q_calls' = q_calls + 1
    /\ \E k \in 1..MaxK : q_k' = k
    /\ q_emb' = None
    /\ q_results' = None
    /\ q_out' = None
    /\ q_err' = None
    /\ IF Truthy(emb_deployment)
       THEN /\ embed_entered' = embed_entered + 1
            /\ q_pc' = "embed"
       ELSE /\ embed_entered' = embed_entered
            /\ q_pc' = "lexical"
    /\ UNCHANGED << vector_field, emb_deployment, embed_backend, searches >>
    /\ PluginFrame

\* Lines 43-46, 60: _retrieve(query, k) is entered; with a vector field set
\* it calls _embed, otherwise it goes to the keyword search.
PluginCall ==
    /\ q_pc = "idle"
    /\ q_calls < MaxCalls
    /\ q_calls' = q_calls + 1
    /\ \E k \in 1..MaxK : q_k' = k
    /\ q_emb' = None
    /\ q_results' = None
    /\ q_out' = None
    /\ q_err' = None
    /\ IF Truthy(vector_field)
       THEN /\ embed_entered' = embed_entered + 1
            /\ q_pc' = "embed"
       ELSE /\ embed_entered' = embed_entered
            /\ q_pc' = "lexical"
    /\ UNCHANGED << vector_field, emb_deployment, embed_backend, searches >>
    /\ PluginFrame

\* Lines 33-41: _embed raises ValueError without a deployment; otherwise the
\* embedding backend is called and returns a vector or raises.
PluginEmbed ==
    /\ q_pc = "embed"
    /\ IF ~Truthy(emb_deployment)
       THEN /\ q_err' = Some("ValueError")
            /\ q_pc' = "idle"
            /\ UNCHANGED << q_emb, embed_backend >>
       ELSE /\ embed_backend' = embed_backend + 1
            /\ \/ /\ q_emb' = Some([vector_of |-> PluginQuery])
                  /\ q_pc' = "hybrid"
                  /\ q_err' = q_err
               \/ /\ q_err' = Some("EmbeddingError")
                  /\ q_pc' = "idle"
                  /\ q_emb' = q_emb
    /\ UNCHANGED << vector_field, emb_deployment, q_k, q_results, q_out, q_calls,
                    embed_entered, searches >>
    /\ PluginFrame

\* Lines 48-59: the hybrid request is given to the index, which returns rows
\* or raises.
PluginHybridSearch ==
    /\ q_pc = "hybrid"
    /\ searches' = Append(searches, HybridRequest(PluginQuery, q_emb[1], q_k))
    /\ \/ /\ \E rows \in IndexResults(q_k) : q_results' = Some(rows)
          /\ q_pc' = "rows"
          /\ q_err' = q_err
       \/ /\ q_err' = Some("SearchError")
          /\ q_pc' = "idle"
          /\ q_results' = q_results
    /\ UNCHANGED << vector_field, emb_deployment, q_k, q_emb, q_out, q_calls,
                    embed_entered, embed_backend >>
    /\ PluginFrame

\* Lines 61-65: the keyword request is given to the index.
PluginLexicalSearch ==
    /\ q_pc = "lexical"
    /\ searches' = Append(searches, LexicalRequest(PluginQuery, q_k))
    /\ \/ /\ \E rows \in IndexResults(q_k) : q_results' = Some(rows)
          /\ q_pc' = "rows"
          /\ q_err' = q_err
       \/ /\ q_err' = Some("SearchError")
          /\ q_pc' = "idle"
          /\ q_results' = q_results
    /\ UNCHANGED << vector_field, emb_deployment, q_k, q_emb, q_out, q_calls,
                    embed_entered, embed_backend >>
    /\ PluginFrame

\* Lines 67-77: the rows are made into passages and returned.
PluginReturn ==
    /\ q_pc = "rows"
    /\ q_out' = Some([i \in 1..Len(q_results[1]) |-> PluginPassage(q_results[1][i])])
    /\ q_pc' = "idle"
    /\ UNCHANGED << vector_field, emb_deployment, q_k, q_emb, q_results, q_err,
                    q_calls, embed_entered, embed_backend, searches >>
    /\ PluginFrame

PluginNext ==
    \/ PluginCall
    \/ PluginEmbed
    \/ PluginHybridSearch
    \/ PluginLexicalSearch
    \/ PluginReturn

PluginParked ==
    /\ q_pc = "off"
    /\ vector_field = None
    /\ emb_deployment = None
    /\ q_k = 5
    /\ q_emb = None
    /\ q_results = None
    /\ q_out = None
    /\ q_err = None
    /\ q_calls = 0
    /\ embed_entered = 0
    /\ embed_backend = 0
    /\ searches = << >>

\* ------------------------------- the tool-calling chat loops: their steps

\* challenge8/main.py:19-31
SQL_SYSTEM_PROMPT ==
    << "Y", "o", "u", " ", "a", "r", "e", " ", "a", "n", " ", "A", "I", " ",
       "a", "s", "s", "i", "s", "t", "a", "n", "t", " ", "t", "h", "a", "t",
       " ", "h", "e", "l", "p", "s", " ", "u", "s", "e", "r", "s", " ", "q",
       "u", "e", "r", "y", " ", "a", " ", "S", "Q", "L", " ", "S", "e", "r",
       "v", "e", "r", " ", "d", "a", "t", "a", "b", "a", "s", "e", " ", "u",
       "s", "i", "n", "g", " ", "n", "a", "t", "u", "r", "a", "l", " ", "l",
       "a", "n", "g", "u", "a", "g", "e", ".", "\n", "\n", "Y", "o", "u",
       " ", "c", "a", "n", ":", "\n", "1", ".", " ", "G", "e", "t", " ", "d",
       "a", "t", "a", "b", "a", "s", "e", " ", "a", "n", "d", " ", "s", "c",
       "h", "e", "m", "a", " ", "i", "n", "f", "o", "r", "m", "a", "t", "i",
       "o", "n", "\n", "2", ".", " ", "L", "i", "s", "t", " ", "t", "a", "b",
       "l", "e", "s", " ", "i", "n", " ", "a", " ", "s", "c", "h", "e", "m",
       "a", "\n", "3", ".", " ", "G", "e", "t", " ", "c", "o", "l", "u", "m",
       "n", " ", "i", "n", "f", "o", " ", "f", "o", "r", " ", "t", "a", "b",
       "l", "e", "s", "\n", "4", ".", " ", "E", "x", "e", "c", "u", "t", "e",
       " ", "S", "Q", "L", " ", "S", "E", "L", "E", "C", "T", " ", "q", "u",
       "e", "r", "i", "e", "s", "\n", "\n", "R", "u", "l", "e", "s", ":",
       "\n", "-", " ", "O", "n", "l", "y", " ", "u", "s", "e", " ", "S", "E",
       "L", "E", "C", "T", " ", "s", "t", "a", "t", "e", "m", "e", "n", "t",
       "s", ",", " ", "n", "e", "v", "e", "r", " ", "m", "o", "d", "i", "f",
       "y", " ", "d", "a", "t", "a", "\n", "-", " ", "U", "s", "e", " ", "T",
       "O", "P", " ", "1", "0", " ", "t", "o", " ", "l", "i", "m", "i", "t",
       " ", "r", "e", "s", "u", "l", "t", "s", "\n", "-", " ", "E", "x", "p",
       "l", "o", "r", "e", " ", "s", "c", "h", "e", "m", "a", " ", "f", "i",
       "r", "s", "t", " ", "i", "f", " ", "u", "n", "s", "u", "r", "e", " ",
       "a", "b", "o", "u", "t", " ", "s", "t", "r", "u", "c", "t", "u", "r",
       "e", "\n", "-", " ", "R", "e", "s", "p", "o", "n", "d", " ", "i", "n",
       " ", "u", "s", "e", "r", "'", "s", " ", "l", "a", "n", "g", "u", "a",
       "g", "e", " ", "(", "T", "u", "r", "k", "i", "s", "h", "/", "E", "n",
       "g", "l", "i", "s", "h", ")" >>

\* challenge5/app.py:65-70
SEARCH_SYSTEM_PROMPT ==
    << "Y", "o", "u", " ", "a", "r", "e", " ", "a", " ", "h", "e", "l", "p",
       "f", "u", "l", " ", "a", "s", "s", "i", "s", "t", "a", "n", "t", ".",
       "\n", "-", " ", "I", "f", " ", "t", "h", "e", " ", "u", "s", "e", "r",
       " ", "a", "s", "k", "s", " ", "s", "o", "m", "e", "t", "h", "i", "n",
       "g", " ", "r", "e", "q", "u", "i", "r", "i", "n", "g", " ", "e", "x",
       "t", "e", "r", "n", "a", "l", " ", "k", "n", "o", "w", "l", "e", "d",
       "g", "e", ",", " ", "c", "a", "l", "l", " ", "S", "e", "a", "r", "c",
       "h", ".", "s", "e", "a", "r", "c", "h", "_", "d", "o", "c", "s", " ",
       "f", "i", "r", "s", "t", ".", "\n", "-", " ", "U", "s", "e", " ", "O",
       "N", "L", "Y", " ", "t", "h", "e", " ", "S", "O", "U", "R", "C", "E",
       "S", " ", "r", "e", "t", "u", "r", "n", "e", "d", " ", "b", "y", " ",
       "S", "e", "a", "r", "c", "h", ".", " ", "I", "f", " ", "n", "o", "t",
       " ", "i", "n", " ", "s", "o", "u", "r", "c", "e", "s", ",", " ", "s",
       "a", "y", " ", "y", "o", "u", " ", "d", "o", "n", "'", "t", " ", "k",
       "n", "o", "w", ".", "\n", "-", " ", "W", "h", "e", "n", " ", "a", "n",
       "s", "w", "e", "r", "i", "n", "g", ",", " ", "c", "i", "t", "e", " ",
       "s", "o", "u", "r", "c", "e", "s", " ", "l", "i", "k", "e", " ", "[",
       "1", "]", ",", " ", "[", "2", "]", "." >>

ToolApps == { "challenge5", "challenge8" }

SystemPromptOf(app) ==
    IF app = "challenge8" THEN SQL_SYSTEM_PROMPT ELSE SEARCH_SYSTEM_PROMPT

\* The words that end the loop: challenge5/app.py:74, challenge8/main.py:89.
ExitWords(app) ==
    IF app = "challenge8"
    THEN { T_exit, T_quit, << "q" >>, << "c", "i", "k", "i", "s" >> }
    ELSE { T_exit, T_quit }

\* The lines the user may type.
ToolInputs == {
    << "e", "x", "i", "t" >>,
    << " ", "Q", " " >>,
    << " " >>,
    << "h", "i" >>,
    << " ", "y", "o" >> }

\* str(response) of the chat service.
ToolAnswers == { << >>, << "o", "k" >> }

ToolsInit ==
    /\ t_app \in ToolApps
    /\ t_pc = "prompt"
    /\ history = << Message("system", SystemPromptOf(t_app)) >>
    /\ t_input = << >>
    /\ t_resp = None
    /\ t_turns = 0
    /\ t_failed = 0

\* challenge5/app.py:72-79, challenge8/main.py:84-94 and 53-54: read a line;
\* an exit word ends the loop and a blank line is skipped; any other line is
\* added to the history as a user message before the chat service is called.
ToolRead ==
    /\ t_pc = "prompt"
    /\ \E raw \in ToolInputs :
        LET line == Strip(raw) IN
        /\ t_input' = line
        /\ IF line # << >> /\ Lower(line) \in ExitWords(t_app)
           THEN /\ t_pc' = "exited"
                /\ UNCHANGED << history, t_turns >>
           ELSE IF line = << >>
           THEN /\ t_pc' = "prompt"
                /\ UNCHANGED << history, t_turns >>
           ELSE /\ t_turns < MaxTurns
                /\ t_turns' = t_turns + 1
                /\ history' = Append(history, Message("user", line))
                /\ t_pc' = "call"
    /\ t_resp' = None
    /\ UNCHANGED << t_app, t_failed >>
    /\ ToolsFrame

\* challenge5/app.py:82-86, challenge8/main.py:60-65 and 98-99: the chat
\* service returns a response or raises.  challenge8 prints the exception
\* and goes back to the prompt; challenge5 has no handler and ends.
ToolGenerate ==
    /\ t_pc = "call"
    /\ \/ /\ \E a \in ToolAnswers : t_resp' = Some(a)
          /\ t_pc' = "reply"
          /\ t_failed' = t_failed
       \/ /\ t_resp' = t_resp
          /\ t_failed' = t_failed + 1
          /\ t_pc' = (IF t_app = "challenge8" THEN "prompt" ELSE "crashed")
    /\ UNCHANGED << t_app, history, t_input, t_turns >>
    /\ ToolsFrame

\* challenge5/app.py:106, challenge8/main.py:67-68: the response is added
\* to the history as the assistant's message.
ToolReply ==
    /\ t_pc = "reply"
    /\ history' = Append(history, Message("assistant", t_resp[1]))
    /\ t_pc' = "prompt"
    /\ UNCHANGED << t_app, t_input, t_resp, t_turns, t_failed >>
    /\ ToolsFrame

ToolsNext ==
    \/ ToolRead
    \/ ToolGenerate
    \/ ToolReply

ToolsParked ==
    /\ t_app = "challenge8"
    /\ t_pc = "off"
    /\ history = << >>
    /\ t_input = << >>
    /\ t_resp = None
    /\ t_turns = 0
    /\ t_failed = 0

\* ------------------------ DatabasePlugin.execute_sql_command: its steps

UpperChar(c) ==
    IF \E i \in 1..Len(LowerCase) : LowerCase[i] = c
    THEN UpperCase[CHOOSE i \in 1..Len(LowerCase) : LowerCase[i] = c]
    ELSE c

\* str.upper()
Upper(s) == [i \in 1..Len(s) |-> UpperChar(s[i])]

\* str.startswith()
StartsWith(s, prefix) ==
    Len(prefix) <= Len(s) /\ SubSeq(s, 1, Len(prefix)) = prefix

T_SELECT == << "S", "E", "L", "E", "C", "T" >>

\* Line 60: the list forbidden, in its order.
FORBIDDEN ==
    << << "D", "E", "L", "E", "T", "E" >>,
       << "U", "P", "D", "A", "T", "E" >>,
       << "I", "N", "S", "E", "R", "T" >>,
       << "D", "R", "O", "P" >>,
       << "A", "L", "T", "E", "R" >>,
       << "T", "R", "U", "N", "C", "A", "T", "E" >>,
       << "E", "X", "E", "C" >> >>

\* "Error: Only SELECT statements allowed."
ONLY_SELECT_ERROR ==
    << "E", "r", "r", "o", "r", ":", " ", "O", "n", "l", "y", " ", "S", "E",
       "L", "E", "C", "T", " ", "s", "t", "a", "t", "e", "m", "e", "n", "t",
       "s", " ", "a", "l", "l", "o", "w", "e", "d", "." >>

\* f"Error: '{kw}' not allowed."
KeywordError(kw) ==
    << "E", "r", "r", "o", "r", ":", " ", "'" >> \o kw
        \o << "'", " ", "n", "o", "t", " ", "a", "l", "l", "o", "w", "e", "d", "." >>

\* f"Error: {str(e)}"
ExceptionError(msg) == << "E", "r", "r", "o", "r", ":", " " >> \o msg

\* A slip: only the first word is looked at.
SqlRejectionPrefixOnly(cmd) ==
    LET sql_upper == Upper(Strip(cmd)) IN
    IF ~StartsWith(sql_upper, T_SELECT) THEN Some(ONLY_SELECT_ERROR) ELSE None

\* Lines 54-63: the error text a command is turned away with, None for a
\* command that passes.  The first word of forbidden found is the one named.
SqlRejection(cmd) ==
    LET sql_upper == Upper(Strip(cmd))
        hits == { i \in 1..Len(FORBIDDEN) : Contains(sql_upper, FORBIDDEN[i]) }
    IN  IF ~StartsWith(sql_upper, T_SELECT) THEN Some(ONLY_SELECT_ERROR)
        ELSE IF hits # {}
        THEN Some(KeywordError(FORBIDDEN[CHOOSE i \in hits : \A j \in hits : i <= j]))
        ELSE None

\* The commands the model may ask for.
SqlCommands == {
    << "s", "e", "l", "e", "c", "t", " ", "1" >>,
    << " ", "S", "e", "l", "e", "c", "t", " ", "a", "\n" >>,
    << "d", "e", "l", "e", "t", "e", " ", "t" >>,
    << "s", "e", "l", "e", "c", "t", " ", "1", ";", "d", "r", "o", "p", " ", "t" >>,
    << "S", "E", "L", "E", "C", "T", " ", "u", "p", "d", "a", "t", "e", "d", " ", "F", "R", "O", "M", " ", "t" >>,
    << "w", "i", "t", "h", " ", "c", " ", "s", "e", "l", "e", "c", "t", " ", "1" >>,
    << >>,
    << "s", "e", "l", "e", "c", "t", "s" >>,
    << "s", "e", "l", "e", "c", "t", " ", "e", "x", "e", "c", "_", "i", "d" >>,
    << "s", "e", "l", "e", "c", "t", " ", "1", " ", "i", "n", "s", "e", "r", "t", " ", "d", "e", "l", "e", "t", "e" >> }

\* What db_service.execute_sql_command may return: json.dumps of the rows.
DbResults == { << "[", "]" >> }

\* str(e) of what db_service may raise.
DbFailures == { << "n", "o", " ", "d", "b" >>, << >> }

DbInit ==
    /\ d_pc = "idle"
    /\ sql_command = << >>
    /\ d_out = None
    /\ d_raised = None
    /\ d_calls = 0
    /\ db_calls = << >>
    /\ db_errors = 0

\* Lines 51-63: the command is checked; one that fails a check is answered
\* with its error text at once.
DbCheck ==
    /\ d_pc = "idle"
    /\ d_calls < MaxCalls
    /\ d_calls' = d_calls + 1
    /\ \E cmd \in SqlCommands :
        /\ sql_command' = cmd
        /\ IF SqlRejection(cmd) # None
           THEN /\ d_out' = SqlRejection(cmd)
                /\ d_pc' = "idle"
           ELSE /\ d_out' = None
                /\ d_pc' = "db"
    /\ UNCHANGED << d_raised, db_calls, db_errors >>
    /\ DbFrame

\* Lines 65-68: the command goes to db_service as it was given; its result is
\* returned, an exception is returned as text.
DbExecute ==
    /\ d_pc = "db"
    /\ db_calls' = Append(db_calls, sql_command)
    /\ \/ /\ \E res \in DbResults : d_out' = Some(res)
          /\ db_errors' = db_errors
       \/ /\ \E msg \in DbFailures : d_out' = Some(ExceptionError(msg))
          /\ db_errors' = db_errors + 1
    /\ d_pc' = "idle"
    /\ UNCHANGED << sql_command, d_raised, d_calls >>
    /\ DbFrame

DbNext ==
    \/ DbCheck
    \/ DbExecute

DbParked ==
    /\ d_pc = "off"
    /\ sql_command = << >>
    /\ d_out = None
    /\ d_raised = None
    /\ d_calls = 0
    /\ db_calls = << >>
    /\ db_errors = 0

\* -------------------------------------------------------- specifications

\* The other program is not running.
IngestParked ==
    /\ ipc = "off"
    /\ corpus = << >>
    /\ batch_no = 0
    /\ embeddings = << >>
    /\ item_no = 0
    /\ item = None
    /\ inserted = 0
    /\ store = << >>
    /\ uuid_count = 0
    /\ attempt = 0
    /\ raised = None
    /\ tries = 0
    /\ errs = << >>
    /\ waits = << >>
    /\ embed_calls = 0
    /\ upsert_calls = 0
    /\ failures = 0
    /\ run = 1
    /\ prior_failed = FALSE

InitChat ==
    /\ ChatInit /\ IngestParked /\ SourcesParked /\ RetrieveParked /\ PluginParked
    /\ ToolsParked
    /\ DbParked

SpecChat == InitChat /\ [][ChatNext]_vars

\* An exception handler that has been entered runs to its end; reading a line
\* waits for the user.
LiveSpecChat ==
    /\ SpecChat
    /\ WF_vars(HandleException)

InitIngest ==
    /\ IngestInit /\ ChatInit /\ SourcesParked /\ RetrieveParked /\ PluginParked
    /\ ToolsParked
    /\ DbParked

InitSources ==
    /\ SourcesInit /\ ChatInit /\ IngestParked /\ RetrieveParked /\ PluginParked
    /\ ToolsParked
    /\ DbParked

InitRetrieve ==
    /\ RetrieveInit /\ ChatInit /\ IngestParked /\ SourcesParked /\ PluginParked
    /\ ToolsParked
    /\ DbParked

InitPlugin ==
    /\ PluginInit /\ ChatInit /\ IngestParked /\ SourcesParked /\ RetrieveParked
    /\ ToolsParked
    /\ DbParked

InitTools ==
    /\ ToolsInit /\ ChatInit /\ IngestParked /\ SourcesParked /\ RetrieveParked
    /\ PluginParked
    /\ DbParked

InitDb ==
    /\ DbInit /\ ChatInit /\ IngestParked /\ SourcesParked /\ RetrieveParked
    /\ PluginParked
    /\ ToolsParked

\* execute_sql_command called up to MaxCalls times.
SpecDb == InitDb /\ [][DbNext]_vars

\* The loop of challenge5/app.py or of challenge8/main.py, up to MaxTurns
\* turns.
SpecTools == InitTools /\ [][ToolsNext]_vars

\* _retrieve called up to MaxCalls times on one SearchPlugin object.
SpecPlugin == InitPlugin /\ [][PluginNext]_vars

\* One call of retrieve(query, k).
SpecRetrieve == InitRetrieve /\ [][RetrieveNext]_vars

\* build_sources_context called up to MaxCalls times on the same list.
SpecSources == InitSources /\ [][SourcesNext]_vars

SpecIngest == InitIngest /\ [][IngestNext]_vars

\* One run against a container that may take an item and still fail the call.
SpecLostReply == InitIngest /\ [][LostReplyNext]_vars

\* The pipeline run up to MaxRuns times over the same corpus.
SpecReingest == InitIngest /\ [][ReingestNext]_vars


\* ----------------------------------------------------- chat loop: claims

OkTurns == SelectSeq(outcomes, LAMBDA o : o.kind = "ok")

BetweenTurns == pc \in { "prompt", "exited" }

LastOutcome == outcomes[Len(outcomes)]

\* C1 as stated: between turns, with N turns completed successfully, the
\* history has 1 + 2N entries, the user entry of each such turn is its raw
\* text, and no entry contains "SOURCES:" or a turn's assembled SourceBlock.
C1_NoSourcesAnywhere ==
    BetweenTurns =>
        /\ Len(messages) = 1 + 2 * Len(OkTurns)
        /\ \A i \in 1..Len(OkTurns) :
              (2 * i <= Len(messages)) => messages[2 * i] = Message("user", OkTurns[i].user)
        /\ \A k \in 1..Len(messages) :
              /\ ~Contains(messages[k].content, SOURCES_MARK)
              /\ \A i \in 1..Len(OkTurns) : ~Contains(messages[k].content, OkTurns[i].sources)

\* C1 as amended: between turns, with N turns completed successfully, the
\* history is the system prompt followed, for each such turn in order, by
\* exactly its raw user text and exactly the answer the backend gave; the
\* source-injected message is never what is stored, so "SOURCES:" or a
\* SourceBlock occurs in an entry only where that raw text or that answer
\* holds it.
C1_CleanTranscript ==
    BetweenTurns =>
        /\ Len(messages) = 1 + 2 * Len(OkTurns)
        /\ messages[1] = Message("system", SYSTEM_PROMPT)
        /\ ~Contains(messages[1].content, SOURCES_MARK)
        /\ \A i \in 1..Len(OkTurns) :
              /\ messages[2 * i] = Message("user", OkTurns[i].user)
              /\ messages[2 * i + 1] = Message("assistant", OkTurns[i].answer)
              /\ messages[2 * i].content # AugmentedContent(OkTurns[i].sources, OkTurns[i].user)

\* Two successful turns and one that was not, one stored entry holding the
\* "SOURCES:" text the user typed.
C1_Witness ==
    /\ pc = "prompt"
    /\ Len(OkTurns) = 2
    /\ Len(outcomes) = 3
    /\ Len(messages) = 5
    /\ \E k \in 2..Len(messages) : Contains(messages[k].content, SOURCES_MARK)

\* C2: every turn that returns a result, the fallback of an empty retrieval
\* included, has appended the raw user text and the answer shown: the history
\* is two entries longer than when the turn began.
C2_AppendOnEveryResult ==
    (pc = "show") =>
        messages = base \o << Message("user", user_input),
                              Message("assistant", result[1].answer) >>

\* C3: in a turn whose retrieval is empty the chat backend is not called, and
\* the result has docs_count 0, no usage and the fixed fallback answer.
C3_EmptyRetrievalSkipsGeneration ==
    /\ (docs = Some(<< >>)) =>
          /\ chat_calls = 0
          /\ pc \in { "branch", "show" }
          /\ resp = None
          /\ turn_messages = None
    /\ (pc = "show" /\ docs = Some(<< >>)) =>
          /\ result[1].docs_count = 0
          /\ result[1].usage = None
          /\ result[1].answer = FALLBACK_ANSWER
    /\ (pc = "prompt" /\ outcomes # << >> /\ LastOutcome.kind = "empty") =>
          /\ chat_calls = 0
          /\ LastOutcome.answer = FALLBACK_ANSWER

\* An empty retrieval has produced its result.
C3_Witness ==
    /\ pc = "show"
    /\ docs = Some(<< >>)
    /\ result = Some(FallbackResult)
    /\ Len(messages) >= 3

IsPrefix(s, t) == Len(s) <= Len(t) /\ SubSeq(t, 1, Len(s)) = s

\* C4: the history always starts with the system turn as first written, only
\* user and assistant turns follow it, and every step leaves the entries
\* already there as they are, in place.
C4_AppendOnlyFixedHead ==
    /\ [](/\ Len(messages) >= 1
          /\ messages[1] = Message("system", SYSTEM_PROMPT)
          /\ \A k \in 2..Len(messages) : messages[k].role \in { "user", "assistant" })
    /\ [][IsPrefix(messages, messages')]_vars

\* Two pairs have been appended after the system turn.
C4_Witness ==
    /\ Len(messages) = 5
    /\ messages[2].role = "user"
    /\ messages[5].role = "assistant"

OddPairs(msgs) ==
    /\ Len(msgs) % 2 = 1
    /\ \A k \in 2..Len(msgs) :
          msgs[k].role = (IF k % 2 = 0 THEN "user" ELSE "assistant")

\* C5: when the embedding, search or chat call raises, the history is what it
\* was when the turn began; and the history handed to the chat backend is
\* always the system turn followed by whole user/assistant pairs.
C5_WriteAfterSuccess ==
    /\ (pc = "except") => messages = base
    /\ (pc = "prompt" /\ outcomes # << >> /\ LastOutcome.kind = "failed") => messages = base
    /\ (pc = "generate") =>
          /\ OddPairs(messages)
          /\ SubSeq(turn_messages[1], 1, Len(turn_messages[1]) - 1) = messages

\* A generation that raised after an earlier turn had succeeded, now handled.
C5_Witness ==
    /\ pc = "except"
    /\ err = Some("GenerationError")
    /\ Len(messages) = 3
    /\ chat_calls = 1

C7_AtMostFiveAttempts ==
    /\ tries <= 5
    /\ Len(errs) <= 5
    /\ (ipc \in { "embed", "upsert" }) => (tries = Len(errs) /\ attempt = tries /\ tries < 5)
    /\ (ipc = "item" /\ (item_no > 0 \/ embed_calls > 0)) => tries = Len(errs) + 1
    /\ (Len(errs) = 5) => ipc = "aborted"
    /\ (ipc = "aborted") =>
          /\ tries = 5
          /\ Len(errs) = 5
          /\ raised = Some(RetryExhausted(errs[5]))
          /\ \A k \in 1..4 : errs[k] # errs[5]

\* Five calls were made and failed, after the run had upserted items.
C7_Witness ==
    /\ ipc = "aborted"
    /\ tries = 5
    /\ inserted >= 1
    /\ raised # None
    /\ raised[1].cause.op = "upsert"

\* 1.5^i seconds for i = 0..3, in thousandths.
ExpectedWaitMillis == << 1000, 1500, 2250, 3375 >>

\* C8: the sleeps of one retry_with_backoff are 1, 1.5, 2.25 and 3.375
\* seconds, one after each failed attempt 0..3 and none before attempt 0 or
\* after the failure of attempt 4.
C8_BackoffDelays ==
    /\ Len(waits) <= 4
    /\ \A i \in 1..Len(waits) :
          i <= 4 => waits[i][1] * 1000 = ExpectedWaitMillis[i] * waits[i][2]
    /\ (ipc \in { "embed", "upsert" }) => Len(waits) = Len(errs)
    /\ (ipc = "aborted") => (Len(errs) = 5 /\ Len(waits) = 4)
    /\ (tries = 0) => waits = << >>

\* Four attempts have failed and four sleeps were made; the fifth attempt is
\* next.
C8_Witness ==
    /\ ipc = "upsert"
    /\ attempt = 4
    /\ Len(waits) = 4
    /\ waits[4] = << 27, 8 >>

RECURSIVE Concat(_)
Concat(ss) == IF ss = << >> THEN << >> ELSE ss[1] \o Concat(Tail(ss))

\* C9: a run in which no backend call failed ends with the corpus cut into
\* ceil(n/8) batches, in order, all of 8 but possibly the last, one embedding
\* call per batch, n upserts, n items in the container under n different ids
\* and the partition key "docs", in corpus order, and a count of n.
C9_CleanRunIngestsAll ==
    (ipc = "done" /\ failures = 0) =>
        LET n == Len(corpus) IN
        /\ Len(Batches) = (n + 7) \div 8
        /\ Concat(Batches) = corpus
        /\ \A b \in 1..Len(Batches) :
              /\ Len(Batches[b]) >= 1
              /\ Len(Batches[b]) <= 8
              /\ (b < Len(Batches)) => Len(Batches[b]) = 8
        /\ batch_no = Len(Batches)
        /\ embed_calls = Len(Batches)
        /\ upsert_calls = n
        /\ inserted = n
        /\ Len(store) = n
        /\ \A i, j \in 1..Len(store) : (i # j) => store[i].id # store[j].id
        /\ \A i \in 1..Len(store) :
              /\ i <= n
              /\ store[i].pk = "docs"
              /\ store[i].title = DocGet(corpus[i], "title")
              /\ store[i].content = DocGet(corpus[i], "content")
              /\ store[i].embedding = [vector_of |-> EmbedText(corpus[i])]

\* Nine documents went in as a batch of 8 and a batch of 1.
C9_Witness ==
    /\ ipc = "done"
    /\ failures = 0
    /\ Len(corpus) = 9
    /\ embed_calls = 2
    /\ upsert_calls = 9
    /\ Len(store) = 9

\* C10: when an embedding call or an upsert has used up its retries the run
\* stops there: nothing more is embedded or upserted, and the container holds
\* the items of exactly the documents upserted before, in order.
C10_AbortKeepsPrefix ==
    /\ (Len(errs) = 5) => ipc = "aborted"
    /\ (ipc = "aborted") =>
          /\ ~ENABLED IngestNext
          /\ raised # None
          /\ inserted < Len(corpus)
          /\ Len(store) = inserted
          /\ \A i \in 1..Len(store) :
                /\ i <= Len(corpus)
                /\ store[i].title = DocGet(corpus[i], "title")
                /\ store[i].content = DocGet(corpus[i], "content")

\* The run stopped in its second batch with the first batch in the container.
C10_Witness ==
    /\ ipc = "aborted"
    /\ batch_no = 2
    /\ inserted = 8
    /\ Len(store) = 8
    /\ Len(corpus) = 9

\* ------------------------------------------------------ re-ingestion: claims

\* C11: when no call failed in this run or an earlier one, the container
\* holds, after the r-th run over a corpus of n documents, r * n items: each
\* run added one item per document under an id no other item has, also where
\* two items hold the same title and content.
C11_ReingestionDuplicates ==
    (ipc = "done" /\ failures = 0 /\ ~prior_failed) =>
        LET n == Len(corpus) IN
        /\ Len(store) = run * n
        /\ uuid_count = run * n
        /\ \A i, j \in 1..Len(store) : (i # j) => store[i].id # store[j].id
        /\ \A r \in 1..run : \A i \in 1..n :
              LET it == store[(r - 1) * n + i] IN
              /\ it.title = DocGet(corpus[i], "title")
              /\ it.content = DocGet(corpus[i], "content")
              /\ (r > 1) =>
                    /\ store[i].title = it.title
                    /\ store[i].content = it.content
                    /\ store[i].id # it.id

\* The second run over 9 documents has finished with 18 items stored.
C11_Witness ==
    /\ ipc = "done"
    /\ run = 2
    /\ failures = 0
    /\ ~prior_failed
    /\ Len(corpus) = 9
    /\ Len(store) = 18
    /\ inserted = 9

\* ------------------------------------------ build_sources_context: claims

\* The length of the "[i] title\n" that opens chunk i, for i below 10.
HeaderLen(d) == 4 + Len(DocGet(d, "title")) + 1

\* What follows the header in chunk i.
ChunkBody(i) == SubSeq(chunks[i], HeaderLen(given[i]) + 1, Len(chunks[i]))

\* The characters passage i may take up in the output.
BlockLen(d) ==
    HeaderLen(d) + (IF Len(DocGet(d, "content")) > 1200 THEN 1203
                    ELSE Len(DocGet(d, "content")))

RECURSIVE BlocksLen(_)
BlocksLen(ds) == IF ds = << >> THEN 0 ELSE BlockLen(ds[1]) + BlocksLen(Tail(ds))

\* C12: the chunk of a passage whose content is longer than 1200 characters
\* holds the first 1200 of them, then "...", and no more; a content of at
\* most 1200 characters is in its chunk as it is; and the returned text is no
\* longer than these chunks and their separators.
C12_TruncatesAt1200 ==
    /\ \A i \in 1..Len(chunks) :
          LET c == DocGet(given[i], "content") IN
          /\ (Len(c) > 1200) =>
                /\ Len(ChunkBody(i)) = 1203
                /\ \A k \in 1..1200 : ChunkBody(i)[k] = c[k]
                /\ SubSeq(ChunkBody(i), 1201, 1203) = << ".", ".", "." >>
          /\ (Len(c) <= 1200) => ChunkBody(i) = c
    /\ \A n \in 1..Len(outs) :
          Len(outs[n]) = BlocksLen(given)
                           + (IF Len(given) = 0 THEN 0 ELSE 2 * (Len(given) - 1))

\* A call has returned for a content of 1204 characters and one of 1200.
C12_Witness ==
    /\ Len(outs) >= 1
    /\ Len(given) = 2
    /\ Len(DocGet(given[1], "content")) = 1204
    /\ Len(DocGet(given[2], "content")) = 1200
    /\ Len(chunks) = 2

\* The digit that numbers passage i, for i below 10.
CitationDigit == << "1", "2", "3", "4", "5", "6", "7", "8", "9" >>

RECURSIVE BlankLineJoined(_)
\* The parts in order, one blank line between two of them.
BlankLineJoined(parts) ==
    IF parts = << >> THEN << >>
    ELSE IF Len(parts) = 1 THEN parts[1]
    ELSE parts[1] \o << "\n", "\n" >> \o BlankLineJoined(Tail(parts))

\* C13: chunk i opens with "[i] ", the title of passage i and a newline, and
\* goes on with that passage's content, cut or not; a finished call has made
\* one chunk per passage, in input order, and returned them with one blank
\* line between two of them, which for no passage is the empty text.
C13_NumberedInOrder ==
    /\ Len(chunks) <= Len(given)
    /\ \A i \in 1..Len(chunks) :
          LET title == IF "title" \in DOMAIN given[i] THEN given[i].title ELSE << >>
              content == IF "content" \in DOMAIN given[i] THEN given[i].content ELSE << >>
              header == << "[", CitationDigit[i], "]", " " >> \o title \o << "\n" >>
          IN  /\ SubSeq(chunks[i], 1, Len(header)) = header
              /\ Len(chunks[i]) - Len(header) <= 1203
              /\ \A k \in 1..Len(content) :
                    (k <= 1200) => chunks[i][Len(header) + k] = content[k]
    /\ (s_pc = "idle" /\ outs # << >>) =>
          /\ Len(chunks) = Len(given)
          /\ outs[Len(outs)] = BlankLineJoined(chunks)
          /\ outs[Len(outs)] = build_sources_context(given)
          /\ (given = << >>) => outs[Len(outs)] = << >>

\* A call has returned two numbered chunks, the first for a passage without a
\* title.
C13_Witness ==
    /\ s_pc = "idle"
    /\ outs # << >>
    /\ Len(given) = 2
    /\ "title" \notin DOMAIN given[1]
    /\ chunks[2][2] = "2"

\* C14: every call with the same list returns the same text, and no step of
\* a call changes the passages the caller holds.
C14_RepeatableAndPure ==
    /\ passages = given
    /\ \A m, n \in 1..Len(outs) : outs[m] = outs[n]

\* Two calls have returned for a list that holds a content to be cut.
C14_Witness ==
    /\ Len(outs) = 2
    /\ \E i \in 1..Len(given) : Len(DocGet(given[i], "content")) > 1200

\* ---------------------------------------------------------- retrieve: claims

\* The places in r_items of the items of partition "docs", nearest first.
DocsPlaces == { i \in 1..Len(r_items) : r_items[i].pk = "docs" }

\* C15: what retrieve returns has at most k passages; they are the nearest
\* items of the partition, nearest first, none skipped, with the title and
\* content each has; and with no item in the partition it returns the empty
\* list, and raises nothing.
C15_AtMostKInRankOrder ==
    (r_pc = "returned") =>
        LET out == r_out[1] IN
        /\ r_err = None
        /\ Len(out) <= r_k
        /\ Len(out) <= Cardinality(DocsPlaces)
        /\ (Len(out) < r_k) => Len(out) = Cardinality(DocsPlaces)
        /\ \A j \in 1..Len(out) :
              \E i \in DocsPlaces :
                 /\ Cardinality({ h \in DocsPlaces : h < i }) = j - 1
                 /\ out[j].title = r_items[i].title
                 /\ DOMAIN out[j] \subseteq { "title", "content" }
                 /\ ("content" \in DOMAIN r_items[i]) =>
                       ("content" \in DOMAIN out[j] /\ out[j].content = r_items[i].content)
        /\ (DocsPlaces = {}) => out = << >>

\* Asked for 3, retrieve has returned 3 of the 5 items of the partition.
C15_Witness ==
    /\ r_pc = "returned"
    /\ r_k = 3
    /\ Len(r_items) = 7
    /\ Len(r_out[1]) = 3
    /\ r_out[1][3].title = << "4" >>

\* retrieve has returned the empty list from a container with no item.
C15_WitnessEmpty ==
    /\ r_pc = "returned"
    /\ r_items = << >>
    /\ r_out = Some(<< >>)

\* ------------------------------------------------ chat loop: more claims

\* The line holds nothing but blanks.
IsBlankLine(raw) == \A i \in 1..Len(raw) : raw[i] \in { " ", "\t", "\n" }

\* The line reads exit or quit, in any case, between blanks.
IsExitLine(raw) ==
    \E a, b \in 1..Len(raw) :
        /\ IsBlankLine(SubSeq(raw, 1, a - 1))
        /\ IsBlankLine(SubSeq(raw, b + 1, Len(raw)))
        /\ \/ Lower(SubSeq(raw, a, b)) = << "e", "x", "i", "t" >>
           \/ Lower(SubSeq(raw, a, b)) = << "q", "u", "i", "t" >>

\* What a line that starts no turn leaves as it is.
NoTurnStarted ==
    /\ turn' = turn
    /\ messages' = messages
    /\ chat_calls' = chat_calls
    /\ UNCHANGED << docs, turn_messages, resp, result, err, base, outcomes >>

\* C16: at the prompt, a line that reads exit or quit (any case, blanks
\* around it) ends the session and starts no turn; a blank line starts no
\* turn, changes neither the history nor the turn number, reaches no backend
\* and leaves the loop at the prompt; any other line starts the next turn.
C16_ExitAndBlankLines ==
    [][(pc = "prompt") =>
          /\ IsExitLine(raw_line') => (pc' = "exited" /\ NoTurnStarted)
          /\ IsBlankLine(raw_line') => (pc' = "prompt" /\ NoTurnStarted)
          /\ (~IsExitLine(raw_line') /\ ~IsBlankLine(raw_line')) =>
                (pc' = "embed" /\ turn' = turn + 1 /\ messages' = messages)
          /\ (raw_line' = << " ", "Q", "u", "I", "t", " " >>) => pc' = "exited"
          /\ (raw_line' = << " ", "\t" >>) => pc' = "prompt"]_vars

\* After one answered turn the user typed " QuIt " and the session ended.
C16_Witness ==
    /\ pc = "exited"
    /\ raw_line = << " ", "Q", "u", "I", "t", " " >>
    /\ turn = 1
    /\ Len(messages) = 3

\* After one answered turn the user typed blanks and is at the prompt again.
C16_WitnessBlank ==
    /\ pc = "prompt"
    /\ raw_line = << " ", "\t" >>
    /\ user_input = << >>
    /\ turn = 1
    /\ Len(messages) = 3

\* ------------------------------------------------ ingestion: more claims

\* C17: the upsert of every item starts with a budget of its own, whatever
\* the embedding call or earlier upserts used up: it begins at attempt 0 with
\* no delay behind it, may go on while fewer than 5 tries were made, waits
\* 1.5^0, 1.5^1, ... seconds between its tries, gives up only after its own
\* fifth try, and no try of it calls the embedding backend again.
C17_UpsertHasOwnBudget ==
    /\ [][(ipc = "item" /\ ipc' = "upsert") =>
              (attempt' = 0 /\ tries' = 0 /\ waits' = << >>)]_vars
    /\ [](ipc = "upsert" =>
              /\ tries = attempt
              /\ tries < MAX_RETRIES
              /\ ENABLED UpsertCall
              /\ Len(waits) = tries
              /\ \A i \in 1..Len(waits) :
                    waits[i][1] * 1000 = ExpectedWaitMillis[i] * waits[i][2])
    /\ [][(ipc = "upsert") =>
              /\ embed_calls' = embed_calls
              /\ embeddings' = embeddings
              /\ upsert_calls' = upsert_calls + 1
              /\ ipc' \in { "upsert", "item", "aborted" }
              /\ (ipc' = "aborted") => (tries' = MAX_RETRIES)]_vars

\* The second item of a batch is on its fifth upsert try, after an embedding
\* call that took five tries and a first item that took five tries too.
C17_Witness ==
    /\ ipc = "upsert"
    /\ batch_no = 1
    /\ item_no = 2
    /\ attempt = 4
    /\ embed_calls = 5
    /\ upsert_calls = 9

\* The container holds the items of the first `inserted` documents, in order.
StoreIsCorpusPrefix ==
    /\ Len(store) = inserted
    /\ inserted <= Len(corpus)
    /\ \A i \in 1..Len(store) :
          /\ store[i].title = DocGet(corpus[i], "title")
          /\ store[i].content = DocGet(corpus[i], "content")
          /\ store[i].embedding = [vector_of |-> EmbedText(corpus[i])]

\* C18: batches are taken one after another in corpus order: the embedding
\* call of a batch is made only when every document of all earlier batches is
\* in the container, the upsert of an item only when every document before
\* it is, each write adds the item of the next document of the corpus, and
\* so the container always holds a prefix of the corpus.
C18_SequentialPrefix ==
    /\ [](StoreIsCorpusPrefix)
    /\ [](ipc = "embed" => inserted = BATCH_SIZE * (batch_no - 1))
    /\ [](ipc = "upsert" => inserted = BATCH_SIZE * (batch_no - 1) + item_no - 1)
    /\ [][/\ batch_no' \in { batch_no, batch_no + 1 }
          /\ (embed_calls' # embed_calls) =>
                (inserted = BATCH_SIZE * (batch_no - 1) /\ batch_no' = batch_no)
          /\ (store' # store) =>
                /\ inserted' = inserted + 1
                /\ Len(store') = Len(store) + 1
                /\ SubSeq(store', 1, Len(store)) = store
                /\ store'[inserted + 1].title = DocGet(corpus[inserted + 1], "title")
                /\ inserted + 1 = BATCH_SIZE * (batch_no - 1) + item_no]_vars

\* The embedding call of the second batch is about to be made, with the eight
\* documents of the first batch in the container.
C18_Witness ==
    /\ ipc = "embed"
    /\ batch_no = 2
    /\ tries = 0
    /\ inserted = 8
    /\ Len(store) = 8
    /\ Len(corpus) = 10

\* ------------------------------------------------ chat turn: stage order

\* The steps one turn may take, by position in main() and ask().
StageOrder ==
    { << "prompt", "prompt" >>, << "prompt", "exited" >>, << "prompt", "embed" >>,
      << "embed", "search" >>, << "embed", "except" >>,
      << "search", "branch" >>, << "search", "except" >>,
      << "branch", "generate" >>, << "branch", "show" >>,
      << "generate", "update" >>, << "generate", "except" >>,
      << "update", "show" >>, << "show", "prompt" >>, << "except", "prompt" >> }

\* C19: in a turn the passages are retrieved first, the message list is
\* assembled only from retrieved passages, the chat call is made only with
\* an assembled list, the history is written only with a response in hand
\* and before anything else changed it, and input is read only when every
\* turn begun so far has ended in a result or in its exception.
C19_StagesInOrder ==
    /\ [](/\ (turn_messages # None) => (docs # None /\ docs[1] # << >>)
          /\ (resp # None) => (turn_messages # None /\ chat_calls = 1)
          /\ (result # None) => (docs # None)
          /\ (pc \in { "prompt", "exited" }) =>
                /\ Len(outcomes) = turn
                /\ docs = None /\ turn_messages = None /\ resp = None
                /\ result = None /\ err = None
          /\ (pc \notin { "prompt", "exited" }) => Len(outcomes) = turn - 1)
    /\ [][/\ << pc, pc' >> \in StageOrder
          /\ (docs' # docs /\ docs' # None) =>
                (docs = None /\ turn_messages = None /\ resp = None /\ messages = base)
          /\ (turn_messages' # turn_messages /\ turn_messages' # None) =>
                (docs # None /\ docs' = docs /\ resp = None /\ messages = base)
          /\ (chat_calls' = chat_calls + 1) =>
                (turn_messages # None /\ resp = None /\ messages = base)
          /\ (messages' # messages) =>
                (resp # None /\ resp' = resp /\ messages = base /\ result = None)
          /\ (turn' # turn) =>
                (turn' = turn + 1 /\ pc = "prompt" /\ Len(outcomes) = turn)]_vars

\* The second turn went through retrieval, assembly, generation and the
\* history update, and its result is about to be shown.
C19_Witness ==
    /\ pc = "show"
    /\ turn = 2
    /\ docs # None
    /\ turn_messages # None
    /\ resp # None
    /\ result # None
    /\ Len(messages) = 5
    /\ Len(outcomes) = 1

\* ------------------------------------------------ chat turn: what is sent

\* "SOURCES:\n[1] A\nxy\n\nQuestion: hi"
SentForHiWithDoc1 ==
       << "S", "O", "U", "R", "C", "E", "S", ":", "\n", "[", "1", "]", " ",
          "A", "\n", "x", "y", "\n", "\n", "Q", "u", "e", "s", "t", "i", "o",
          "n", ":", " ", "h", "i" >>

\* C20: the list built for the chat call is the history as it stands,
\* followed by one user message reading "SOURCES:\n", the SourceBlock of the
\* retrieved passages, "\n\nQuestion: " and the user's text; while the list
\* is built and sent the history stays as it was when the turn began, one
\* system turn and two entries per answered turn, the current text not yet
\* added.
C20_SentListIsHistoryPlusAugmented ==
    /\ [](turn_messages # None =>
            LET sent == turn_messages[1]
                last == sent[Len(sent)]
            IN  /\ pc \in { "generate", "update", "show", "except" }
                /\ Len(sent) = Len(base) + 1
                /\ SubSeq(sent, 1, Len(base)) = base
                /\ last.role = "user"
                /\ last.content =
                      << "S", "O", "U", "R", "C", "E", "S", ":", "\n" >>
                      \o build_sources_context(docs[1])
                      \o << "\n", "\n", "Q", "u", "e", "s", "t", "i", "o", "n", ":", " " >>
                      \o user_input
                /\ (docs[1] = << Doc1 >> /\ user_input = << "h", "i" >>) =>
                      last.content = SentForHiWithDoc1
                /\ (pc = "generate" \/ pc = "update" \/ pc = "except") =>
                      /\ messages = base
                      /\ Len(messages) = 1 + 2 * Len(OkTurns)
                      /\ Len(sent) = 2 + 2 * Len(OkTurns))
    /\ [][(pc = "branch" \/ pc = "generate") =>
              /\ messages' = messages
              /\ (turn_messages' # None) => (messages' = base)]_vars

\* In the second turn the list about to be sent holds the system turn, the
\* first turn's two entries and the augmented message; the history holds 3.
C20_Witness ==
    /\ pc = "generate"
    /\ turn = 2
    /\ Len(messages) = 3
    /\ turn_messages # None
    /\ Len(turn_messages[1]) = 4
    /\ docs = Some(<< Doc1 >>)
    /\ user_input = << "h", "i" >>

\* ------------------------------------------- SearchPlugin._retrieve: claims

IsHybrid(req) == Len(req.vector_queries) = 1

IsLexical(req) == req.vector_queries = << >>

\* C21 as stated: once a call of _retrieve is over, _embed was called and a
\* hybrid request was made in it exactly when a vector field is set, and
\* without a vector field a keyword request was made and the embedding
\* backend was not called.
C21_EmbedAndHybridIffVectorField ==
    (q_pc = "idle" /\ q_calls >= 1) =>
        /\ (/\ embed_entered = q_calls
            /\ Len(SelectSeq(searches, IsHybrid)) = q_calls) <=> Truthy(vector_field)
        /\ ~Truthy(vector_field) =>
              /\ Len(SelectSeq(searches, IsLexical)) = q_calls
              /\ embed_backend = 0

\* C21: _embed is called in a call of _retrieve exactly when a vector field
\* is set; every request given to the index is then a hybrid one, made with
\* the vector _embed returned, and none is made before _embed has returned;
\* without a vector field every request is a keyword one, neither _embed nor
\* the embedding backend is ever called, and a call fails only if the index
\* does, whatever the embedding deployment is set to.
C21_HybridIffVectorField ==
    /\ [](/\ embed_entered = (IF Truthy(vector_field) THEN q_calls ELSE 0)
          /\ \A i \in 1..Len(searches) :
                /\ IsHybrid(searches[i]) <=> Truthy(vector_field)
                /\ IsLexical(searches[i]) <=> ~Truthy(vector_field)
                /\ searches[i].search_text = PluginQuery
                /\ IsHybrid(searches[i]) =>
                      /\ searches[i].vector_queries[1].vector = [vector_of |-> PluginQuery]
                      /\ searches[i].vector_queries[1].fields = vector_field
                      /\ searches[i].vector_queries[1].k_nearest_neighbors = searches[i].top
          /\ Len(searches) <= q_calls
          /\ Truthy(vector_field) => Len(searches) <= embed_backend
          /\ (q_pc = "rows" \/ q_out # None) =>
                /\ Len(searches) >= 1
                /\ searches[Len(searches)].top = q_k
                /\ Truthy(vector_field) => q_emb # None
          /\ ~Truthy(vector_field) =>
                /\ embed_backend = 0
                /\ q_emb = None
                /\ q_err \in { None, Some("SearchError") }
                /\ q_pc \in { "idle", "lexical", "rows" })
    /\ [](q_pc = "lexical" => ENABLED PluginLexicalSearch)
    /\ [][(q_calls' = q_calls + 1) =>
              q_pc' = (IF Truthy(vector_field) THEN "embed" ELSE "lexical")]_vars

\* With no vector field and no embedding deployment a call returned two
\* passages from one keyword request.
C21_Witness ==
    /\ vector_field = None
    /\ emb_deployment = None
    /\ q_pc = "idle"
    /\ q_out # None
    /\ Len(q_out[1]) = 2
    /\ Len(searches) = 1
    /\ IsLexical(searches[1])

\* With a vector field set a call returned after one hybrid request.
C21_WitnessHybrid ==
    /\ Truthy(vector_field)
    /\ q_pc = "idle"
    /\ q_out # None
    /\ embed_entered = 1
    /\ embed_backend = 1
    /\ Len(searches) = 1
    /\ IsHybrid(searches[1])

\* -------------------------------------- the tool-calling chat loops: claims

\* C22: whenever the loop is at the prompt or has ended, the history is the
\* system message followed by user and assistant messages in turn, one pair
\* per turn in which the chat service returned and nothing for a turn in
\* which it raised: every user message is followed by its reply.
C22_PairsOnlyAfterSuccess ==
    (t_pc \in { "prompt", "exited" }) =>
        /\ history[1].role = "system"
        /\ Len(history) = 1 + 2 * (t_turns - t_failed)
        /\ \A i \in 2..Len(history) :
              history[i].role = (IF i % 2 = 0 THEN "user" ELSE "assistant")

\* ------------------------------------- execute_sql_command: claims

\* The words no forwarded command may hold.
ForbiddenWords ==
    { << "D", "E", "L", "E", "T", "E" >>,
      << "U", "P", "D", "A", "T", "E" >>,
      << "I", "N", "S", "E", "R", "T" >>,
      << "D", "R", "O", "P" >>,
      << "A", "L", "T", "E", "R" >>,
      << "T", "R", "U", "N", "C", "A", "T", "E" >>,
      << "E", "X", "E", "C" >> }

\* Trimmed and in upper case the command starts with SELECT and holds none
\* of the forbidden words anywhere.
PassesPolicy(cmd) ==
    /\ StartsWith(Upper(Strip(cmd)), << "S", "E", "L", "E", "C", "T" >>)
    /\ \A w \in ForbiddenWords : ~Contains(Upper(Strip(cmd)), w)

IsErrorText(out) ==
    out # None /\ StartsWith(out[1], << "E", "r", "r", "o", "r", ":" >>)

\* C23: every command given to the database service passes the policy; a
\* command that does not is answered with a text starting "Error:" in the
\* same step, with no call of the database service; a command that passes is
\* given to the service unchanged, and when the service raises, the answer is
\* a text starting "Error:"; no exception leaves execute_sql_command.
C23_OnlySelectForwarded ==
    /\ [](/\ \A i \in 1..Len(db_calls) : PassesPolicy(db_calls[i])
          /\ d_raised = None
          /\ (d_pc = "db") => PassesPolicy(sql_command)
          /\ (d_pc = "idle" /\ d_calls >= 1) => d_out # None
          /\ (d_pc = "idle" /\ d_calls >= 1 /\ ~PassesPolicy(sql_command)) =>
                IsErrorText(d_out)
          /\ ~PassesPolicy(<< "S", "E", "L", "E", "C", "T", " ", "u", "p", "d", "a", "t", "e", "d", " ", "F", "R", "O", "M", " ", "t" >>)
          /\ PassesPolicy(<< "s", "e", "l", "e", "c", "t", "s" >>))
    /\ [][/\ (d_calls' = d_calls + 1 /\ ~PassesPolicy(sql_command')) =>
                (db_calls' = db_calls /\ d_pc' = "idle" /\ IsErrorText(d_out'))
          /\ (d_calls' = d_calls + 1 /\ PassesPolicy(sql_command')) =>
                (db_calls' = db_calls /\ d_pc' = "db")
          /\ (d_pc = "db") =>
                /\ db_calls' = Append(db_calls, sql_command)
                /\ d_pc' = "idle"
                /\ (db_errors' # db_errors) => IsErrorText(d_out')]_vars

\* A SELECT with a DROP after it was turned away without a database call.
C23_Witness ==
    /\ d_pc = "idle"
    /\ d_calls = 1
    /\ sql_command = << "s", "e", "l", "e", "c", "t", " ", "1", ";", "d", "r", "o", "p", " ", "t" >>
    /\ d_out = Some(<< "E", "r", "r", "o", "r", ":", " ", "'", "D", "R", "O", "P", "'", " ", "n", "o", "t", " ", "a", "l", "l", "o", "w", "e", "d", "." >>)
    /\ db_calls = << >>

\* A command that passed was given to the service, which raised.
C23_WitnessDbError ==
    /\ d_pc = "idle"
    /\ d_calls = 1
    /\ sql_command = << " ", "S", "e", "l", "e", "c", "t", " ", "a", "\n" >>
    /\ db_calls = << sql_command >>
    /\ db_errors = 1
    /\ d_out = Some(<< "E", "r", "r", "o", "r", ":", " ", "n", "o", " ", "d", "b" >>)

\* ------------------------------------------- ingestion: ids under retries

\* The run is in the retried call op, or was ended by it.
InCall(op) ==
    \/ ipc = op
    \/ ipc = "aborted" /\ raised[1].cause.op = op

\* Documents the item loop has taken up so far in this run: all of the
\* earlier batches and, once the batch is embedded, item_no of this one.
DocsTaken ==
    IF batch_no = 0 THEN 0
    ELSE IF InCall("embed") THEN BATCH_SIZE * (batch_no - 1)
    ELSE BATCH_SIZE * (batch_no - 1) + item_no

\* The upsert of the document taken up last has not returned.
UpsertOpen == InCall("upsert")

StoredIds == { store[i].id : i \in 1..Len(store) }

\* C24: every further attempt of an upsert sends the item of the first one,
\* id included; so, also when the container took an item whose call then
\* failed, it holds at most one item per document taken up, under ids all
\* different, no more ids than documents; and inserted counts exactly the
\* documents whose upsert has returned.
C24_OneIdPerDocument ==
    /\ [][(ipc = "upsert" /\ ipc' \in { "upsert", "item", "aborted" }) =>
              (item' = item /\ uuid_count' = uuid_count)]_vars
    /\ [][/\ (upsert_calls' = upsert_calls + 1 /\ failures' = failures) =>
                inserted' = inserted + 1
          /\ ~(upsert_calls' = upsert_calls + 1 /\ failures' = failures) =>
                inserted' = inserted
          /\ (store' # store) => store' = Upsert(store, item[1])]_vars
    /\ [](/\ uuid_count = DocsTaken
          /\ DocsTaken <= Len(corpus)
          /\ Cardinality(StoredIds) = Len(store)
          /\ Cardinality(StoredIds) <= DocsTaken
          /\ \A i \in 1..Len(store) :
                /\ store[i].id = i
                /\ store[i].title = DocGet(corpus[i], "title")
                /\ store[i].content = DocGet(corpus[i], "content")
          /\ inserted = DocsTaken - (IF UpsertOpen THEN 1 ELSE 0)
          /\ Len(store) \in { inserted, inserted + 1 }
          /\ (Len(store) = inserted + 1) => UpsertOpen)

\* The second document's upsert returned at its third attempt, after the
\* container had taken the item in an attempt that failed: two items, two ids.
C24_Witness ==
    /\ ipc = "item"
    /\ batch_no = 1
    /\ item_no = 2
    /\ attempt = 2
    /\ failures = 2
    /\ upsert_calls = 4
    /\ inserted = 2
    /\ Len(store) = 2
    /\ StoredIds = { 1, 2 }

====
